---- MODULE Spec2Model ----
(***************************************************************************)
(* Model of the Peach-Blossom-Paper backend: the entry store of            *)
(* src-tauri/src/storage.rs over the cipher of src-tauri/src/crypto.rs and *)
(* the entry type of src-tauri/src/models.rs.                              *)
(*                                                                         *)
(* Conventions.                                                            *)
(*   Option<T>      None is <<>>, Some(x) is <<x>>.                        *)
(*   Result<T>      a record with a field ok and a field err.              *)
(*   String         a text of the file or of the cipher is a record with a *)
(*                  field kind: "empty" (""), "ws" (only white space),     *)
(*                  "garbage" (no JSON document) or "json" (a JSON         *)
(*                  document, val, pretty-printed or compact).             *)
(*   Vec<u8>        a record with a field kind: "rand" (len bytes of the   *)
(*                  random source, numbered v), "utf8" (the bytes of a     *)
(*                  text) or "gcm" (an AES-GCM output).                    *)
(*   base64         the encoding of bytes b is the record [b64 |-> b].     *)
(***************************************************************************)
EXTENDS Integers, Sequences, FiniteSets, TLC

VARIABLES file, last, written, tasks, lastWriter, cx

vars == <<file, last, written, tasks, lastWriter, cx>>

(***************************************************************************)
(* Bounds of the model.                                                    *)
(***************************************************************************)
\* entry ids are 1..MaxId (the ids are UUID strings in the program)
MaxId == 2
\* the random source yields the values 1..MaxRand for a salt and for a nonce
MaxRand == 2
\* the clock (Utc::now) reads 0..MaxClock
MaxClock == 2
\* a password to score is up to 6 characters of different kinds followed by up
\* to MaxFill times one character
MaxFill == 17

(***************************************************************************)
(* Program constants.                                                      *)
(***************************************************************************)
SALT_LENGTH == 32
NONCE_LENGTH == 12
KEY_LENGTH == 32

None == <<>>
Some(x) == <<x>>
IsSome(o) == Len(o) = 1
Unwrap(o) == o[1]

Ids == 1..MaxId
Variants == {1, 2}
Passwords == {"", "p", "q"}
OptPasswords == {None} \cup {Some(p) : p \in Passwords}
Rands == 1..MaxRand

\* Range of a sequence
Range(s) == {s[i] : i \in 1..Len(s)}

\* the first index of s whose element satisfies Test, 0 if none (Iterator::position)
Position(s, Test(_)) ==
    IF \E i \in 1..Len(s) : Test(s[i])
    THEN CHOOSE i \in 1..Len(s) : Test(s[i]) /\ \A k \in 1..(i - 1) : ~Test(s[k])
    ELSE 0

(***************************************************************************)
(* models.rs: the entry type.                                              *)
(***************************************************************************)
MemoryTypes == {"Text", "Image", "Audio", "Mixed"}
EmotionTags == {"Joy", "Sadness", "Nostalgia", "Hope", "Regret", "Attachment", "Persistence"}

\* a metadata record as create_memory_entry builds it, with the given tags
MemoryMetadata(words, tags) ==
    [word_count |-> Some(words),
     reading_time |-> Some(IF words \div 200 > 1 THEN words \div 200 ELSE 1),
     location |-> None, weather |-> None, mood |-> None,
     tags |-> tags]

\* The entries the commands hand to the store: for every id two versions that
\* differ in title, content, type, tags, dates and metadata.
MemoryEntry(id, v) ==
    IF v = 1
    THEN [id |-> id,
          title |-> <<"J", "o", "y">>,
          content |-> <<"a">>,
          memory_type |-> "Text",
          emotion_tags |-> <<"Joy">>,
          created_at |-> id,
          updated_at |-> id,
          is_encrypted |-> FALSE,
          attachments |-> None,
          metadata |-> None]
    ELSE [id |-> id,
          title |-> <<"b">>,
          content |-> <<"j", "O", "y", "s">>,
          memory_type |-> "Image",
          emotion_tags |-> <<"Hope", "Sadness">>,
          created_at |-> id,
          updated_at |-> id + 1,
          is_encrypted |-> FALSE,
          attachments |-> None,
          metadata |-> Some(MemoryMetadata(4, IF id = 1 THEN None ELSE Some(<<"t">>)))]

Entries == {MemoryEntry(id, v) : id \in Ids, v \in Variants}

(***************************************************************************)
(* serde_json: JSON documents and the (de)serialization of the two shapes  *)
(* the entries file can hold.  A Rust String inside a document is a record *)
(* [t, s]: t tells what the characters are ("text", "uuid", "enum",        *)
(* "rfc3339", "b64") and s is what they denote.                            *)
(***************************************************************************)
JNull == [j |-> "null"]
JBool(b) == [j |-> "bool", b |-> b]
JNum(n) == [j |-> "num", n |-> n]
JStr(t, s) == [j |-> "str", str |-> [t |-> t, s |-> s]]
JArr(items) == [j |-> "arr", items |-> items]
JObj(fields) == [j |-> "obj", fields |-> fields]

Ok(v) == [ok |-> TRUE, val |-> v, err |-> "none"]
Err(e) == [ok |-> FALSE, val |-> <<>>, err |-> e]

\* #[serde(rename_all = "lowercase")] of MemoryType and EmotionTag
LowercaseName(n) ==
    CASE n = "Text" -> "text" [] n = "Image" -> "image" [] n = "Audio" -> "audio"
      [] n = "Mixed" -> "mixed" [] n = "Joy" -> "joy" [] n = "Sadness" -> "sadness"
      [] n = "Nostalgia" -> "nostalgia" [] n = "Hope" -> "hope" [] n = "Regret" -> "regret"
      [] n = "Attachment" -> "attachment" [] n = "Persistence" -> "persistence"

\* the variant of the set Names that is written n, if any
VariantNamed(Names, n) ==
    IF \E v \in Names : LowercaseName(v) = n
    THEN Ok(CHOOSE v \in Names : LowercaseName(v) = n)
    ELSE Err("unknown variant")

OptionToJson(o, ToJson(_)) == IF o = None THEN JNull ELSE ToJson(Unwrap(o))

StringsToJson(ss) == JArr([i \in 1..Len(ss) |-> JStr("text", ss[i])])

MetadataToJson(m) ==
    JObj([word_count |-> OptionToJson(m.word_count, JNum),
          reading_time |-> OptionToJson(m.reading_time, JNum),
          location |-> OptionToJson(m.location, LAMBDA x : JStr("text", x)),
          weather |-> OptionToJson(m.weather, LAMBDA x : JStr("text", x)),
          mood |-> OptionToJson(m.mood, LAMBDA x : JStr("text", x)),
          tags |-> OptionToJson(m.tags, StringsToJson)])

\* Serialize for MemoryEntry (derived)
EntryToJson(e) ==
    JObj([id |-> JStr("uuid", e.id),
          title |-> JStr("text", e.title),
          content |-> JStr("text", e.content),
          memory_type |-> JStr("enum", LowercaseName(e.memory_type)),
          emotion_tags |-> JArr([i \in 1..Len(e.emotion_tags) |->
                                   JStr("enum", LowercaseName(e.emotion_tags[i]))]),
          created_at |-> JStr("rfc3339", e.created_at),
          updated_at |-> JStr("rfc3339", e.updated_at),
          is_encrypted |-> JBool(e.is_encrypted),
          attachments |-> OptionToJson(e.attachments, LAMBDA a : JArr(a)),
          metadata |-> OptionToJson(e.metadata, MetadataToJson)])

\* Serialize for Vec<MemoryEntry>
EntriesToJson(entries) == JArr([i \in 1..Len(entries) |-> EntryToJson(entries[i])])

IsJStr(v, t) == v.j = "str" /\ v.str.t = t

\* a field an object must carry
HasField(v, name) == name \in DOMAIN v.fields

\* Deserialize for Option<T>: a missing field and null are None
OptionFromJson(v, name, Good(_), From(_)) ==
    IF ~HasField(v, name) \/ v.fields[name].j = "null" THEN Ok(None)
    ELSE IF Good(v.fields[name]) THEN Ok(Some(From(v.fields[name])))
    ELSE Err("invalid type")

IsJNum(v) == v.j = "num"
IsJText(v) == IsJStr(v, "text")
IsJTexts(v) == v.j = "arr" /\ \A i \in 1..Len(v.items) : IsJText(v.items[i])
TextsFromJson(v) == [i \in 1..Len(v.items) |-> v.items[i].str.s]

\* Deserialize for MemoryMetadata (derived)
MetadataFromJson(v) ==
    IF v.j # "obj" THEN Err("invalid type")
    ELSE LET wc == OptionFromJson(v, "word_count", IsJNum, LAMBDA x : x.n)
             rt == OptionFromJson(v, "reading_time", IsJNum, LAMBDA x : x.n)
             lo == OptionFromJson(v, "location", IsJText, LAMBDA x : x.str.s)
             we == OptionFromJson(v, "weather", IsJText, LAMBDA x : x.str.s)
             mo == OptionFromJson(v, "mood", IsJText, LAMBDA x : x.str.s)
             tg == OptionFromJson(v, "tags", IsJTexts, TextsFromJson)
         IN IF wc.ok /\ rt.ok /\ lo.ok /\ we.ok /\ mo.ok /\ tg.ok
            THEN Ok([word_count |-> wc.val, reading_time |-> rt.val, location |-> lo.val,
                     weather |-> we.val, mood |-> mo.val, tags |-> tg.val])
            ELSE Err("invalid type")

IsJEnums(v, Names) ==
    /\ v.j = "arr"
    /\ \A i \in 1..Len(v.items) :
          IsJStr(v.items[i], "enum") /\ VariantNamed(Names, v.items[i].str.s).ok

\* Deserialize for MemoryEntry (derived): an object with the eight fields that
\* are no Option, each of its type
EntryFromJson(v) ==
    IF v.j # "obj" THEN Err("invalid type")
    ELSE IF \E n \in {"id", "title", "content", "memory_type", "emotion_tags",
                      "created_at", "updated_at", "is_encrypted"} : ~HasField(v, n)
    THEN Err("missing field")
    ELSE LET f == v.fields
             at == OptionFromJson(v, "attachments", LAMBDA x : x.j = "arr", LAMBDA x : x.items)
             md == IF ~HasField(v, "metadata") \/ f.metadata.j = "null" THEN Ok(None)
                   ELSE LET m == MetadataFromJson(f.metadata)
                        IN IF m.ok THEN Ok(Some(m.val)) ELSE m
         IN IF /\ IsJStr(f.id, "uuid") /\ IsJText(f.title) /\ IsJText(f.content)
               /\ IsJStr(f.memory_type, "enum")
               /\ VariantNamed(MemoryTypes, f.memory_type.str.s).ok
               /\ IsJEnums(f.emotion_tags, EmotionTags)
               /\ IsJStr(f.created_at, "rfc3339") /\ IsJStr(f.updated_at, "rfc3339")
               /\ f.is_encrypted.j = "bool"
               /\ at.ok /\ md.ok
            THEN Ok([id |-> f.id.str.s,
                     title |-> f.title.str.s,
                     content |-> f.content.str.s,
                     memory_type |-> VariantNamed(MemoryTypes, f.memory_type.str.s).val,
                     emotion_tags |-> [i \in 1..Len(f.emotion_tags.items) |->
                         VariantNamed(EmotionTags, f.emotion_tags.items[i].str.s).val],
                     created_at |-> f.created_at.str.s,
                     updated_at |-> f.updated_at.str.s,
                     is_encrypted |-> f.is_encrypted.b,
                     attachments |-> at.val,
                     metadata |-> md.val])
            ELSE Err("invalid type")

\* Deserialize for Vec<MemoryEntry>: an array whose every element is an entry
EntriesFromJson(v) ==
    IF v.j # "arr" THEN Err("invalid type")
    ELSE IF \A i \in 1..Len(v.items) : EntryFromJson(v.items[i]).ok
    THEN Ok([i \in 1..Len(v.items) |-> EntryFromJson(v.items[i]).val])
    ELSE Err("invalid type")

\* Serialize for EncryptionResult (derived): an object of three strings
EncryptionResultToJson(r) ==
    JObj([encrypted_data |-> [j |-> "str", str |-> r.encrypted_data],
          nonce |-> [j |-> "str", str |-> r.nonce],
          salt |-> [j |-> "str", str |-> r.salt]])

\* Deserialize for EncryptionResult (derived): an object that has the three
\* fields as strings (other fields are ignored), or an array of exactly three
\* strings (serde reads a struct from a sequence too)
EncryptionResultFromJson(v) ==
    IF v.j = "obj"
    THEN IF /\ \A n \in {"encrypted_data", "nonce", "salt"} : HasField(v, n)
            /\ \A n \in {"encrypted_data", "nonce", "salt"} : v.fields[n].j = "str"
         THEN Ok([encrypted_data |-> v.fields.encrypted_data.str,
                  nonce |-> v.fields.nonce.str,
                  salt |-> v.fields.salt.str])
         ELSE Err("missing field")
    ELSE IF v.j = "arr"
    THEN IF Len(v.items) = 3 /\ \A i \in 1..3 : v.items[i].j = "str"
         THEN Ok([encrypted_data |-> v.items[1].str,
                  nonce |-> v.items[2].str,
                  salt |-> v.items[3].str])
         ELSE Err("invalid length")
    ELSE Err("invalid type")

(***************************************************************************)
(* Texts: the content of a file and the data of the cipher.                *)
(***************************************************************************)
EmptyText == [kind |-> "empty"]
WsText == [kind |-> "ws"]
GarbageText == [kind |-> "garbage"]
\* serde_json::to_string_pretty and serde_json::to_string
to_string_pretty(v) == [kind |-> "json", val |-> v, pretty |-> TRUE]
to_string(v) == [kind |-> "json", val |-> v, pretty |-> FALSE]

\* str::is_empty
is_empty(text) == text.kind = "empty"
\* str::trim().is_empty()
trim_is_empty(text) == text.kind \in {"empty", "ws"}

\* serde_json::from_str::<T>: the text must be a JSON document of T's shape
from_str(text, FromJson(_)) ==
    IF text.kind # "json" THEN Err("syntax") ELSE FromJson(text.val)

(***************************************************************************)
(* crypto.rs: BackendEncryption.                                           *)
(***************************************************************************)
\* general_purpose::STANDARD.encode / decode
b64_encode(bytes) == [t |-> "b64", s |-> bytes]
b64_decode(str) == IF str.t = "b64" THEN Ok(str.s) ELSE Err("invalid base64")

\* String::is_empty of a field of DecryptionParams
str_is_empty(str) == str.t = "text" /\ str.s = <<>>

\* str::as_bytes and String::from_utf8
as_bytes(text) == [kind |-> "utf8", text |-> text]
from_utf8(bytes) == IF bytes.kind = "utf8" THEN Ok(bytes.text) ELSE Err("invalid utf-8")

\* generate_salt that fills the salt with the same bytes at every call
generate_salt_fixed(r) == [kind |-> "rand", len |-> SALT_LENGTH, v |-> 1]

\* generate_salt and generate_nonce: SALT_LENGTH and NONCE_LENGTH bytes of
\* OsRng; r is the value the random source yields
generate_salt(r) == [kind |-> "rand", len |-> SALT_LENGTH, v |-> r]
generate_nonce(r) == [kind |-> "rand", len |-> NONCE_LENGTH, v |-> r]

\* Vec::len of decoded bytes
bytes_len(bytes) == IF bytes.kind \in {"rand", "flipped"} THEN bytes.len ELSE 0 - 1

\* the bytes b with some bit flipped: as many bytes, equal to no other bytes
flipped(b) == [kind |-> "flipped", len |-> bytes_len(b), of |-> b]

\* derive_key with the salt left out of the hash
derive_key_unsalted(password, salt) ==
    IF bytes_len(salt) < 8 \/ bytes_len(salt) > 48 THEN Err("Failed to encode salt")
    ELSE LET hash == [kind |-> "argon2id", password |-> password,
                      salt |-> generate_salt(1), len |-> 32]
         IN IF hash.len < KEY_LENGTH THEN Err("Hash too short")
            ELSE Ok([hash EXCEPT !.len = KEY_LENGTH])

\* derive_key: Argon2id (default parameters, a 32 byte tag) of the password
\* under the salt, cut to KEY_LENGTH bytes.  The salt must fit a SaltString
\* and Argon2 (8 to 48 bytes).
derive_key(password, salt) ==
    IF bytes_len(salt) < 8 \/ bytes_len(salt) > 48 THEN Err("Failed to encode salt")
    ELSE LET hash == [kind |-> "argon2id", password |-> password, salt |-> salt, len |-> 32]
         IN IF hash.len < KEY_LENGTH THEN Err("Hash too short")
            ELSE Ok([hash EXCEPT !.len = KEY_LENGTH])

\* Aes256Gcm: the output of encrypt opens under the same key and the same
\* nonce only
aes_gcm_encrypt(key, nonce, plaintext) ==
    [kind |-> "gcm", key |-> key, nonce |-> nonce, pt |-> plaintext]
\* Aes256Gcm::decrypt that opens a ciphertext under any key
aes_gcm_decrypt_any_key(key, nonce, ciphertext) ==
    IF ciphertext.kind = "gcm" /\ ciphertext.nonce = nonce
    THEN Ok(ciphertext.pt)
    ELSE Err("aead::Error")

aes_gcm_decrypt(key, nonce, ciphertext) ==
    IF ciphertext.kind = "gcm" /\ ciphertext.key = key /\ ciphertext.nonce = nonce
    THEN Ok(ciphertext.pt)
    ELSE Err("aead::Error")

\* encrypt with the nonce and the salt of the result exchanged
encrypt_swapped_fields(data, password, rs, rn) ==
    IF is_empty(data) \/ password = "" THEN Err("Data and password cannot be empty")
    ELSE LET salt == generate_salt(rs)
             nonce_bytes == generate_nonce(rn)
             key == derive_key(password, salt)
         IN IF ~key.ok THEN key
            ELSE Ok([encrypted_data |->
                        b64_encode(aes_gcm_encrypt(key.val, nonce_bytes, as_bytes(data))),
                     nonce |-> b64_encode(salt),
                     salt |-> b64_encode(nonce_bytes)])

\* BackendEncryption::encrypt; rs and rn are what the random source yields for
\* the salt and for the nonce
encrypt(data, password, rs, rn) ==
    IF is_empty(data) \/ password = "" THEN Err("Data and password cannot be empty")
    ELSE LET salt == generate_salt(rs)
             nonce_bytes == generate_nonce(rn)
             key == derive_key(password, salt)
         IN IF ~key.ok THEN key
            ELSE Ok([encrypted_data |->
                        b64_encode(aes_gcm_encrypt(key.val, nonce_bytes, as_bytes(data))),
                     nonce |-> b64_encode(nonce_bytes),
                     salt |-> b64_encode(salt)])

\* decrypt with the key derived from the nonce instead of the salt
decrypt_key_from_nonce(params) ==
    LET encrypted_bytes == b64_decode(params.encrypted_data)
        nonce_bytes == b64_decode(params.nonce)
    IN IF ~encrypted_bytes.ok \/ ~nonce_bytes.ok THEN Err("Failed to decode")
       ELSE LET key == derive_key(params.password, nonce_bytes.val)
                decrypted_bytes == aes_gcm_decrypt(key.val, nonce_bytes.val, encrypted_bytes.val)
            IN IF ~key.ok THEN key
               ELSE IF ~decrypted_bytes.ok
                    THEN Err("Decryption failed (possibly wrong password)")
                    ELSE from_utf8(decrypted_bytes.val)

\* Nonce::from_slice: a GenericArray of NONCE_LENGTH bytes; from_slice panics
\* on a slice of another length
Nonce_from_slice(bytes) ==
    IF bytes_len(bytes) = NONCE_LENGTH THEN Ok(bytes) ELSE Err("panic")

\* decrypt without the test of the length of the nonce
decrypt_unchecked_nonce(params) ==
    IF \/ str_is_empty(params.encrypted_data) \/ str_is_empty(params.nonce)
       \/ str_is_empty(params.salt) \/ params.password = ""
    THEN Err("All decryption parameters are required")
    ELSE LET encrypted_bytes == b64_decode(params.encrypted_data)
             nonce_bytes == b64_decode(params.nonce)
             salt_bytes == b64_decode(params.salt)
         IN IF ~encrypted_bytes.ok THEN Err("Failed to decode encrypted data")
            ELSE IF ~nonce_bytes.ok THEN Err("Failed to decode nonce")
            ELSE IF ~salt_bytes.ok THEN Err("Failed to decode salt")
            ELSE LET key == derive_key(params.password, salt_bytes.val)
                 IN IF ~key.ok THEN key
                    ELSE IF ~Nonce_from_slice(nonce_bytes.val).ok
                    THEN Nonce_from_slice(nonce_bytes.val)
                    ELSE LET decrypted_bytes ==
                                 aes_gcm_decrypt(key.val, nonce_bytes.val, encrypted_bytes.val)
                         IN IF ~decrypted_bytes.ok
                            THEN Err("Decryption failed (possibly wrong password)")
                            ELSE LET decrypted_text == from_utf8(decrypted_bytes.val)
                                 IN IF ~decrypted_text.ok
                                    THEN Err("Failed to convert decrypted data to string")
                                    ELSE decrypted_text

\* BackendEncryption::decrypt
decrypt(params) ==
    IF \/ str_is_empty(params.encrypted_data) \/ str_is_empty(params.nonce)
       \/ str_is_empty(params.salt) \/ params.password = ""
    THEN Err("All decryption parameters are required")
    ELSE LET encrypted_bytes == b64_decode(params.encrypted_data)
             nonce_bytes == b64_decode(params.nonce)
             salt_bytes == b64_decode(params.salt)
         IN IF ~encrypted_bytes.ok THEN Err("Failed to decode encrypted data")
            ELSE IF ~nonce_bytes.ok THEN Err("Failed to decode nonce")
            ELSE IF ~salt_bytes.ok THEN Err("Failed to decode salt")
            ELSE IF bytes_len(nonce_bytes.val) # NONCE_LENGTH THEN Err("Invalid nonce length")
            ELSE LET key == derive_key(params.password, salt_bytes.val)
                 IN IF ~key.ok THEN key
                    ELSE IF ~Nonce_from_slice(nonce_bytes.val).ok
                    THEN Nonce_from_slice(nonce_bytes.val)
                    ELSE LET decrypted_bytes ==
                                 aes_gcm_decrypt(key.val, nonce_bytes.val, encrypted_bytes.val)
                         IN IF ~decrypted_bytes.ok
                            THEN Err("Decryption failed (possibly wrong password)")
                            ELSE LET decrypted_text == from_utf8(decrypted_bytes.val)
                                 IN IF ~decrypted_text.ok
                                    THEN Err("Failed to convert decrypted data to string")
                                    ELSE decrypted_text

(***************************************************************************)
(* storage.rs: StorageManager.  The entries file is Missing or a text.     *)
(***************************************************************************)
Missing == [kind |-> "missing"]

\* Path::exists of entries_file
exists(f) == f.kind # "missing"

\* char::to_lowercase over the letters, str::to_lowercase, str::contains
Uppers == <<"A", "B", "C", "D", "E", "F", "G", "H", "I", "J", "K", "L", "M",
            "N", "O", "P", "Q", "R", "S", "T", "U", "V", "W", "X", "Y", "Z">>
Lowers == <<"a", "b", "c", "d", "e", "f", "g", "h", "i", "j", "k", "l", "m",
            "n", "o", "p", "q", "r", "s", "t", "u", "v", "w", "x", "y", "z">>
to_lowercase_char(c) ==
    IF \E i \in 1..Len(Uppers) : Uppers[i] = c
    THEN Lowers[CHOOSE i \in 1..Len(Uppers) : Uppers[i] = c]
    ELSE c
\* to_lowercase left out: the comparison is case sensitive
to_lowercase_identity(str) == str

to_lowercase(str) == [i \in 1..Len(str) |-> to_lowercase_char(str[i])]
contains(hay, needle) ==
    \E k \in 0..(Len(hay) - Len(needle)) : SubSeq(hay, k + 1, k + Len(needle)) = needle

\* matches_filter that asks for metadata whatever the filter
matches_filter_needs_tags(entry, filter) ==
    LET keyword_ok ==
            IsSome(filter.keyword) =>
                LET keyword_lower == to_lowercase(Unwrap(filter.keyword))
                IN \/ contains(to_lowercase(entry.title), keyword_lower)
                   \/ contains(to_lowercase(entry.content), keyword_lower)
        type_ok ==
            IsSome(filter.memory_type) => entry.memory_type = Unwrap(filter.memory_type)
        emotion_ok ==
            IsSome(filter.emotion_tags) =>
                \E i \in 1..Len(Unwrap(filter.emotion_tags)) :
                    Unwrap(filter.emotion_tags)[i] \in Range(entry.emotion_tags)
        date_ok ==
            IsSome(filter.date_range) =>
                ~(\/ entry.created_at < Unwrap(filter.date_range).start
                  \/ entry.created_at > Unwrap(filter.date_range).end)
        tags_ok ==
            /\ IsSome(entry.metadata)
            /\ IsSome(filter.tags) =>
                /\ IsSome(entry.metadata)
                /\ IsSome(Unwrap(entry.metadata).tags)
                /\ \E i \in 1..Len(Unwrap(filter.tags)) :
                      Unwrap(filter.tags)[i] \in Range(Unwrap(Unwrap(entry.metadata).tags))
    IN keyword_ok /\ type_ok /\ emotion_ok /\ date_ok /\ tags_ok

\* matches_filter with the end of the date range excluded
matches_filter_exclusive_end(entry, filter) ==
    LET keyword_ok ==
            IsSome(filter.keyword) =>
                LET keyword_lower == to_lowercase(Unwrap(filter.keyword))
                IN \/ contains(to_lowercase(entry.title), keyword_lower)
                   \/ contains(to_lowercase(entry.content), keyword_lower)
        type_ok ==
            IsSome(filter.memory_type) => entry.memory_type = Unwrap(filter.memory_type)
        emotion_ok ==
            IsSome(filter.emotion_tags) =>
                \E i \in 1..Len(Unwrap(filter.emotion_tags)) :
                    Unwrap(filter.emotion_tags)[i] \in Range(entry.emotion_tags)
        date_ok ==
            IsSome(filter.date_range) =>
                ~(\/ entry.created_at < Unwrap(filter.date_range).start
                  \/ entry.created_at >= Unwrap(filter.date_range).end)
        tags_ok ==
            IsSome(filter.tags) =>
                /\ IsSome(entry.metadata)
                /\ IsSome(Unwrap(entry.metadata).tags)
                /\ \E i \in 1..Len(Unwrap(filter.tags)) :
                      Unwrap(filter.tags)[i] \in Range(Unwrap(Unwrap(entry.metadata).tags))
    IN keyword_ok /\ type_ok /\ emotion_ok /\ date_ok /\ tags_ok

\* matches_filter with the tags test skipped for an entry that has no tags
matches_filter_lenient_tags(entry, filter) ==
    LET keyword_ok ==
            IsSome(filter.keyword) =>
                LET keyword_lower == to_lowercase(Unwrap(filter.keyword))
                IN \/ contains(to_lowercase(entry.title), keyword_lower)
                   \/ contains(to_lowercase(entry.content), keyword_lower)
        type_ok ==
            IsSome(filter.memory_type) => entry.memory_type = Unwrap(filter.memory_type)
        emotion_ok ==
            IsSome(filter.emotion_tags) =>
                \E i \in 1..Len(Unwrap(filter.emotion_tags)) :
                    Unwrap(filter.emotion_tags)[i] \in Range(entry.emotion_tags)
        date_ok ==
            IsSome(filter.date_range) =>
                ~(\/ entry.created_at < Unwrap(filter.date_range).start
                  \/ entry.created_at > Unwrap(filter.date_range).end)
        tags_ok ==
            (/\ IsSome(filter.tags)
             /\ IsSome(entry.metadata)
             /\ IsSome(Unwrap(entry.metadata).tags)) =>
                /\ \E i \in 1..Len(Unwrap(filter.tags)) :
                      Unwrap(filter.tags)[i] \in Range(Unwrap(Unwrap(entry.metadata).tags))
    IN keyword_ok /\ type_ok /\ emotion_ok /\ date_ok /\ tags_ok

\* StorageManager::matches_filter
matches_filter(entry, filter) ==
    LET keyword_ok ==
            IsSome(filter.keyword) =>
                LET keyword_lower == to_lowercase(Unwrap(filter.keyword))
                IN \/ contains(to_lowercase(entry.title), keyword_lower)
                   \/ contains(to_lowercase(entry.content), keyword_lower)
        type_ok ==
            IsSome(filter.memory_type) => entry.memory_type = Unwrap(filter.memory_type)
        emotion_ok ==
            IsSome(filter.emotion_tags) =>
                \E i \in 1..Len(Unwrap(filter.emotion_tags)) :
                    Unwrap(filter.emotion_tags)[i] \in Range(entry.emotion_tags)
        date_ok ==
            IsSome(filter.date_range) =>
                ~(\/ entry.created_at < Unwrap(filter.date_range).start
                  \/ entry.created_at > Unwrap(filter.date_range).end)
        tags_ok ==
            IsSome(filter.tags) =>
                /\ IsSome(entry.metadata)
                /\ IsSome(Unwrap(entry.metadata).tags)
                /\ \E i \in 1..Len(Unwrap(filter.tags)) :
                      Unwrap(filter.tags)[i] \in Range(Unwrap(Unwrap(entry.metadata).tags))
    IN keyword_ok /\ type_ok /\ emotion_ok /\ date_ok /\ tags_ok

\* load_all_entries with a container taken for an empty store
load_all_entries_swallow(f) ==
    IF ~exists(f) \/ trim_is_empty(f) THEN Ok(<<>>)
    ELSE IF from_str(f, EncryptionResultFromJson).ok THEN Ok(<<>>)
    ELSE LET entries == from_str(f, EntriesFromJson)
         IN IF entries.ok THEN entries ELSE Err("Failed to parse entries")

\* load_all_entries without the attempt to read the file as a container
load_all_entries_no_sniff(f) ==
    IF ~exists(f) \/ trim_is_empty(f) THEN Ok(<<>>)
    ELSE LET entries == from_str(f, EntriesFromJson)
         IN IF entries.ok THEN entries ELSE Err("Failed to parse entries")

\* StorageManager::load_all_entries
load_all_entries(f) ==
    IF ~exists(f) THEN Ok(<<>>)
    ELSE IF trim_is_empty(f) THEN Ok(<<>>)
    ELSE IF from_str(f, EncryptionResultFromJson).ok
    THEN Err("Entries are encrypted, password required")
    ELSE LET entries == from_str(f, EntriesFromJson)
         IN IF entries.ok THEN entries ELSE Err("Failed to parse entries")

\* save_all_entries with the password ignored: always plaintext
save_all_entries_plaintext(entries, password, rs, rn) ==
    Ok(to_string_pretty(EntriesToJson(entries)))

\* save_all_entries that writes plaintext when the encryption fails
save_all_entries_fallback(entries, password, rs, rn) ==
    LET json_content == to_string_pretty(EntriesToJson(entries))
    IN IF IsSome(password)
       THEN LET encrypted == encrypt(json_content, Unwrap(password), rs, rn)
            IN IF ~encrypted.ok THEN Ok(json_content)
               ELSE Ok(to_string(EncryptionResultToJson(encrypted.val)))
       ELSE Ok(json_content)

\* StorageManager::save_all_entries: the content it writes to the entries
\* file, or the error it returns without writing
save_all_entries(entries, password, rs, rn) ==
    LET json_content == to_string_pretty(EntriesToJson(entries))
    IN IF IsSome(password)
       THEN LET encrypted == encrypt(json_content, Unwrap(password), rs, rn)
            IN IF ~encrypted.ok THEN encrypted
               ELSE Ok(to_string(EncryptionResultToJson(encrypted.val)))
       ELSE Ok(json_content)

\* load_entries_with_password falling back to the plaintext load for a file
\* that is no container
load_entries_with_password_fallback(f, password) ==
    IF ~exists(f) \/ trim_is_empty(f) THEN Ok(<<>>)
    ELSE LET encrypted_data == from_str(f, EncryptionResultFromJson)
         IN IF ~encrypted_data.ok
            THEN LET entries == from_str(f, EntriesFromJson)
                 IN IF entries.ok THEN entries ELSE Err("Failed to parse encrypted data")
            ELSE LET decrypted_content ==
                         decrypt([encrypted_data |-> encrypted_data.val.encrypted_data,
                                  nonce |-> encrypted_data.val.nonce,
                                  salt |-> encrypted_data.val.salt,
                                  password |-> password])
                 IN IF ~decrypted_content.ok THEN decrypted_content
                    ELSE from_str(decrypted_content.val, EntriesFromJson)

\* StorageManager::load_entries_with_password
load_entries_with_password(f, password) ==
    IF ~exists(f) THEN Ok(<<>>)
    ELSE IF trim_is_empty(f) THEN Ok(<<>>)
    ELSE LET encrypted_data == from_str(f, EncryptionResultFromJson)
         IN IF ~encrypted_data.ok THEN Err("Failed to parse encrypted data")
            ELSE LET decrypted_content ==
                         decrypt([encrypted_data |-> encrypted_data.val.encrypted_data,
                                  nonce |-> encrypted_data.val.nonce,
                                  salt |-> encrypted_data.val.salt,
                                  password |-> password])
                 IN IF ~decrypted_content.ok THEN decrypted_content
                    ELSE LET entries == from_str(decrypted_content.val, EntriesFromJson)
                         IN IF entries.ok THEN entries
                            ELSE Err("Failed to parse decrypted entries")

\* save_entry, lines 52-59: the collection it goes on with after the load
\* (unwrap_or_default: a failed load counts as the empty collection) and the
\* replace-or-push of the entry
unwrap_or_default(loaded) == IF loaded.ok THEN loaded.val ELSE <<>>

\* upsert with the lookup left out: the entry is always pushed
upsert_always_push(entries, entry) == Append(entries, entry)

upsert(entries, entry) ==
    LET index == Position(entries, LAMBDA e : e.id = entry.id)
    IN IF index # 0 THEN [entries EXCEPT ![index] = entry] ELSE Append(entries, entry)

\* retain with the test inverted: the entries of the id are the ones kept
retain_inverted(entries, entry_id) == SelectSeq(entries, LAMBDA e : e.id = entry_id)

\* delete_entry, line 69: Vec::retain
retain(entries, entry_id) == SelectSeq(entries, LAMBDA e : e.id # entry_id)

(***************************************************************************)
(* State.                                                                  *)
(*   file        the content of memories.json                              *)
(*   last        the last call of the store: its arguments, the file       *)
(*               before it (pre), what it returned and whether it wrote    *)
(*   written     the collection and the password of the last write of the  *)
(*               entries file and the entry save_entry was called with     *)
(*               (valid is FALSE before the first write)                   *)
(*   tasks, lastWriter   the concurrent commands (SpecConc)                *)
(*   cx          the stand-alone cipher commands (SpecCrypto)              *)
(***************************************************************************)
\* a file that some other program left: a JSON array of three base64 strings
ForeignFile ==
    to_string(JArr(<<JStr("b64", [kind |-> "rand", len |-> 20, v |-> 1]),
                     JStr("b64", generate_nonce(1)),
                     JStr("b64", generate_salt(1))>>))

\* what memories.json can hold before the first call: nothing, no or only
\* white-space characters, a cut or otherwise broken document, a foreign file
InitFiles == {Missing, EmptyText, WsText, GarbageText, ForeignFile}

NoFilter ==
    [keyword |-> None, memory_type |-> None, emotion_tags |-> None,
     date_range |-> None, tags |-> None]

\* the filters search_memory_entries is called with
Filters ==
    {NoFilter,
     [NoFilter EXCEPT !.keyword = Some(<<"j", "o", "y">>)],
     [NoFilter EXCEPT !.memory_type = Some("Text")],
     [NoFilter EXCEPT !.emotion_tags = Some(<<"Hope", "Joy">>)],
     [NoFilter EXCEPT !.date_range = Some([start |-> 1, end |-> 1])],
     [NoFilter EXCEPT !.tags = Some(<<"t">>)],
     [NoFilter EXCEPT !.keyword = Some(<<"Y">>), !.memory_type = Some("Image")],
     [NoFilter EXCEPT !.keyword = Some(<<"O", "Y", "S">>)],
     [NoFilter EXCEPT !.keyword = Some(<<>>)],
     [NoFilter EXCEPT !.emotion_tags = Some(<<>>)],
     [NoFilter EXCEPT !.date_range = Some([start |-> 2, end |-> 2])],
     [NoFilter EXCEPT !.date_range = Some([start |-> 1, end |-> 2])],
     [NoFilter EXCEPT !.date_range = Some([start |-> 2, end |-> 1])],
     [NoFilter EXCEPT !.tags = Some(<<"x", "t">>)],
     [keyword |-> Some(<<"j", "o", "y">>), memory_type |-> Some("Text"),
      emotion_tags |-> Some(<<"Joy">>), date_range |-> Some([start |-> 1, end |-> 2]),
      tags |-> None],
     [keyword |-> None, memory_type |-> Some("Image"),
      emotion_tags |-> Some(<<"Joy", "Sadness">>),
      date_range |-> Some([start |-> 2, end |-> 3]), tags |-> Some(<<"t">>)]}

NoCall ==
    [op |-> "none", entry |-> None, id |-> None, password |-> None, filter |-> None,
     pre |-> Missing, ok |-> TRUE, err |-> "none", value |-> <<>>, deleted |-> FALSE,
     wrote |-> FALSE]

NotWritten == [valid |-> FALSE, password |-> None, entries |-> <<>>, entry |-> None]

NoTasks == <<>>
NoCipher == [pc |-> "off"]

Init ==
    /\ file \in InitFiles
    /\ last = NoCall
    /\ written = NotWritten
    /\ tasks = NoTasks
    /\ lastWriter = 0
    /\ cx = NoCipher

\* the random values a save draws: none unless encrypt gets as far as
\* generate_salt and generate_nonce
RandsFor(password) == IF IsSome(password) /\ Unwrap(password) # "" THEN Rands ELSE {1}

\* A command runs when no response is pending (the calls of Spec are sequential)
Idle == last.op = "none"

\* save_entry with the error of the load returned (? for unwrap_or_default)
SaveEntryPropagates(entry, password, rs, rn) ==
    /\ Idle
    /\ \E loaded \in {load_all_entries(file)} :
       \E saved \in {IF loaded.ok
                     THEN save_all_entries(upsert(loaded.val, entry), password, rs, rn)
                     ELSE loaded} :
          /\ file' = IF saved.ok THEN saved.val ELSE file
          /\ written' = IF saved.ok
                        THEN [valid |-> TRUE, password |-> password,
                              entries |-> upsert(loaded.val, entry), entry |-> Some(entry)]
                        ELSE written
          /\ last' = [NoCall EXCEPT !.op = "save_entry", !.entry = Some(entry),
                                    !.password = password, !.pre = file,
                                    !.ok = saved.ok, !.err = saved.err, !.wrote = saved.ok]
    /\ UNCHANGED <<tasks, lastWriter>>

\* StorageManager::save_entry(entry, password), with the random values rs, rn
SaveEntryCall(entry, password, rs, rn) ==
    /\ Idle
    /\ \E entries \in {upsert(unwrap_or_default(load_all_entries(file)), entry)} :
       \E saved \in {save_all_entries(entries, password, rs, rn)} :
          /\ file' = IF saved.ok THEN saved.val ELSE file
          /\ written' = IF saved.ok
                        THEN [valid |-> TRUE, password |-> password, entries |-> entries,
                              entry |-> Some(entry)]
                        ELSE written
          /\ last' = [NoCall EXCEPT !.op = "save_entry", !.entry = Some(entry),
                                    !.password = password, !.pre = file,
                                    !.ok = saved.ok, !.err = saved.err, !.wrote = saved.ok]
    /\ UNCHANGED <<tasks, lastWriter>>

SaveEntry(entry, password, rs, rn) ==
    /\ SaveEntryCall(entry, password, rs, rn)
    /\ UNCHANGED cx

\* delete_entry without the test of line 71: it writes what is left in any case
DeleteEntryAlwaysWrites(entry_id) ==
    /\ Idle
    /\ \E loaded \in {unwrap_or_default(load_all_entries(file))} :
       \E entries \in {retain(loaded, entry_id)} :
       \E saved \in {save_all_entries(entries, None, 1, 1)} :
          /\ file' = saved.val
          /\ written' = [valid |-> TRUE, password |-> None, entries |-> entries,
                         entry |-> None]
          /\ last' = [NoCall EXCEPT !.op = "delete_entry", !.id = Some(entry_id),
                                    !.pre = file, !.deleted = Len(entries) < Len(loaded),
                                    !.wrote = TRUE]
    /\ UNCHANGED <<tasks, lastWriter, cx>>

\* StorageManager::delete_entry(entry_id)
DeleteEntry(entry_id) ==
    /\ Idle
    /\ \E loaded \in {unwrap_or_default(load_all_entries(file))} :
       \E entries \in {retain(loaded, entry_id)} :
          IF Len(entries) < Len(loaded)
          THEN \E saved \in {save_all_entries(entries, None, 1, 1)} :
                  /\ file' = IF saved.ok THEN saved.val ELSE file
                  /\ written' = IF saved.ok
                                THEN [valid |-> TRUE, password |-> None, entries |-> entries,
                                      entry |-> None]
                                ELSE written
                  /\ last' = [NoCall EXCEPT !.op = "delete_entry", !.id = Some(entry_id),
                                            !.pre = file, !.ok = saved.ok, !.err = saved.err,
                                            !.deleted = saved.ok, !.wrote = saved.ok]
          ELSE /\ UNCHANGED <<file, written>>
               /\ last' = [NoCall EXCEPT !.op = "delete_entry", !.id = Some(entry_id),
                                         !.pre = file, !.deleted = FALSE]
    /\ UNCHANGED <<tasks, lastWriter, cx>>

\* a call that only reads: what it returns is recorded in last
Returns(call, loaded, value) ==
    /\ last' = IF loaded.ok
               THEN [call EXCEPT !.pre = file, !.value = value]
               ELSE [call EXCEPT !.pre = file, !.ok = FALSE, !.err = loaded.err]
    /\ UNCHANGED <<file, written, tasks, lastWriter, cx>>

\* StorageManager::get_entry(entry_id)
GetEntry(entry_id) ==
    /\ Idle
    /\ \E loaded \in {load_all_entries(file)} :
       \E index \in {Position(unwrap_or_default(loaded), LAMBDA e : e.id = entry_id)} :
          Returns([NoCall EXCEPT !.op = "get_entry", !.id = Some(entry_id)], loaded,
                  IF index # 0 THEN Some(loaded.val[index]) ELSE None)

\* StorageManager::get_all_entries
GetAllEntries ==
    /\ Idle
    /\ \E loaded \in {load_all_entries(file)} :
          Returns([NoCall EXCEPT !.op = "get_all_entries"], loaded, loaded.val)

\* StorageManager::search_entries(filter)
SearchEntries(filter) ==
    /\ Idle
    /\ \E loaded \in {load_all_entries(file)} :
          Returns([NoCall EXCEPT !.op = "search_entries", !.filter = Some(filter)], loaded,
                  SelectSeq(unwrap_or_default(loaded), LAMBDA e : matches_filter(e, filter)))

\* StorageManager::get_random_entry: SliceRandom::choose yields any entry
GetRandomEntry ==
    /\ Idle
    /\ \E loaded \in {load_all_entries(file)} :
          IF ~loaded.ok \/ loaded.val = <<>>
          THEN Returns([NoCall EXCEPT !.op = "get_random_entry"], loaded, None)
          ELSE \E i \in 1..Len(loaded.val) :
                  Returns([NoCall EXCEPT !.op = "get_random_entry"], loaded,
                          Some(loaded.val[i]))

\* StorageManager::load_entries_with_password(password)
LoadEntriesWithPassword(password) ==
    /\ Idle
    /\ \E loaded \in {load_entries_with_password(file, password)} :
          Returns([NoCall EXCEPT !.op = "load_entries_with_password",
                                 !.password = Some(password)], loaded, loaded.val)

\* the command hands its ApiResponse to the front end
Respond ==
    /\ ~Idle
    /\ last' = NoCall
    /\ UNCHANGED <<file, written, tasks, lastWriter, cx>>

Next ==
    \/ \E entry \in Entries, password \in OptPasswords :
          \E rs \in RandsFor(password), rn \in RandsFor(password) :
             SaveEntry(entry, password, rs, rn)
    \/ \E entry_id \in Ids : DeleteEntry(entry_id)
    \/ \E entry_id \in Ids : GetEntry(entry_id)
    \/ GetAllEntries
    \/ \E filter \in Filters : SearchEntries(filter)
    \/ GetRandomEntry
    \/ \E password \in Passwords : LoadEntriesWithPassword(password)
    \/ Respond

Spec == Init /\ [][Next]_vars

(***************************************************************************)
(* The vocabulary of the properties: what a file holds, read off the       *)
(* document itself (section 6 of the specification).                       *)
(***************************************************************************)
\* the file is missing or holds no character but white space
Blank(f) == f.kind \in {"missing", "empty", "ws"}

\* the file is a JSON object of exactly the fields encrypted_data, nonce, salt
ContainerShape(f) ==
    /\ f.kind = "json"
    /\ f.val.j = "obj"
    /\ DOMAIN f.val.fields = {"encrypted_data", "nonce", "salt"}

\* the file is a JSON array of objects that each carry an id
CollectionShape(f) ==
    /\ f.kind = "json"
    /\ f.val.j = "arr"
    /\ \A i \in 1..Len(f.val.items) :
          f.val.items[i].j = "obj" /\ "id" \in DOMAIN f.val.items[i].fields

\* the collection a blank or plaintext file holds
Collection(f) == IF Blank(f) THEN <<>> ELSE EntriesFromJson(f.val).val

\* a blank or plaintext store
PlainStore(f) == Blank(f) \/ CollectionShape(f)

\* C1: save_entry(entry, None) on a missing, blank or plaintext file holding C
\* leaves a plaintext file that holds C with the entry of the same id replaced
\* in place by entry, or, if C has no such entry, C with entry appended; the
\* other entries and their order are unchanged.
C1_SaveUpserts ==
    (/\ last.op = "save_entry" /\ last.password = None /\ last.ok
     /\ PlainStore(last.pre))
    => LET C == Collection(last.pre)
           e == Unwrap(last.entry)
           P == Collection(file)
       IN /\ CollectionShape(file)
          /\ IF \E i \in 1..Len(C) : C[i].id = e.id
             THEN /\ Len(P) = Len(C)
                  /\ \A i \in 1..Len(C) : P[i] = IF C[i].id = e.id THEN e ELSE C[i]
             ELSE /\ Len(P) = Len(C) + 1
                  /\ P[Len(P)] = e
                  /\ \A i \in 1..Len(C) : P[i] = C[i]

\* a save without password replaced the first of two stored entries by another
\* version of it
C1_Witness ==
    /\ last.op = "save_entry" /\ last.password = None /\ last.ok
    /\ CollectionShape(last.pre)
    /\ Len(Collection(last.pre)) = 2
    /\ Collection(last.pre)[1].id = Unwrap(last.entry).id
    /\ Collection(last.pre)[1] # Unwrap(last.entry)
    /\ Collection(file)[1] = Unwrap(last.entry)

\* C3: delete_entry(id) on a plaintext store: with no entry of that id it
\* returns false and writes nothing; with one it returns true and the file
\* holds one entry fewer, the others in their order.
C3_DeleteSemantics ==
    (last.op = "delete_entry" /\ PlainStore(last.pre))
    => LET C == Collection(last.pre)
           id == Unwrap(last.id)
           P == Collection(file)
       IN /\ last.ok
          /\ IF \A i \in 1..Len(C) : C[i].id # id
             THEN ~last.deleted /\ ~last.wrote /\ file = last.pre
             ELSE /\ last.deleted
                  /\ CollectionShape(file)
                  /\ Len(P) = Len(C) - 1
                  /\ \E k \in 1..Len(C) :
                        /\ C[k].id = id
                        /\ P = SubSeq(C, 1, k - 1) \o SubSeq(C, k + 1, Len(C))

\* a delete removed the first of two stored entries
C3_Witness ==
    /\ last.op = "delete_entry" /\ last.deleted
    /\ CollectionShape(last.pre)
    /\ Len(Collection(last.pre)) = 2
    /\ Collection(last.pre)[1].id = Unwrap(last.id)
    /\ Collection(file) = <<Collection(last.pre)[2]>>

\* C4: after a successful save_entry the file is a container iff the call had
\* a password; with a password the one ciphertext of the container is the
\* whole collection and the document holds no entry in plaintext.
C4_EncryptedIffPassword ==
    (last.op = "save_entry" /\ last.ok)
    => /\ ContainerShape(file) <=> IsSome(last.password)
       /\ ~IsSome(last.password) => CollectionShape(file)
       /\ IsSome(last.password) =>
             /\ \A n \in DOMAIN file.val.fields :
                   file.val.fields[n].j = "str" /\ file.val.fields[n].str.t = "b64"
             /\ file.val.fields.encrypted_data.str.s.kind = "gcm"
             /\ file.val.fields.encrypted_data.str.s.pt.kind = "utf8"
             /\ Collection(file.val.fields.encrypted_data.str.s.pt.text) = written.entries
             /\ Unwrap(last.entry) \in Range(written.entries)

\* a save with a password on a plaintext file of one other entry left a
\* container of both
C4_Witness ==
    /\ last.op = "save_entry" /\ last.ok /\ IsSome(last.password)
    /\ CollectionShape(last.pre)
    /\ Len(written.entries) = 2
    /\ ContainerShape(file)

\* C5: after a successful save_entry(e, Some(p)) and no other write,
\* load_entries_with_password(p) succeeds and returns the collection that save
\* persisted, e included.
C5_LoadAfterEncryptedSave ==
    (/\ last.op = "load_entries_with_password"
     /\ written.valid /\ IsSome(written.entry) /\ IsSome(written.password)
     /\ last.password = written.password)
    => /\ last.ok
       /\ last.value = written.entries
       /\ Unwrap(written.entry) \in Range(last.value)

\* the load returned the two entries of an encrypted save
C5_Witness ==
    /\ last.op = "load_entries_with_password"
    /\ written.valid /\ IsSome(written.entry) /\ IsSome(written.password)
    /\ last.password = written.password
    /\ last.ok /\ Len(last.value) = 2

\* C6: while the file holds a container, get_entry, get_all_entries,
\* search_entries and get_random_entry return the password-required error and
\* no value.
C6_ReadsNeedPassword ==
    (/\ last.op \in {"get_entry", "get_all_entries", "search_entries", "get_random_entry"}
     /\ ContainerShape(last.pre))
    => /\ ~last.ok
       /\ last.err = "Entries are encrypted, password required"
       /\ last.value = <<>>

\* a search on a container of two entries
C6_Witness ==
    /\ last.op = "search_entries"
    /\ ContainerShape(last.pre)
    /\ written.valid /\ Len(written.entries) = 2
    /\ ~last.ok

\* C7 as stated: a delete_entry call made while the file is a container
\* leaves the file a plaintext collection.
C7_DeleteRewritesPlaintext ==
    (last.op = "delete_entry" /\ ContainerShape(last.pre)) => CollectionShape(file)

\* C7 as amended: delete_entry never encrypts, so what it writes is a
\* plaintext collection; but on a container it finds no entry (the load fails
\* and counts as empty), returns false and writes nothing: the file stays the
\* same container.
C7_DeleteLeavesContainer ==
    (last.op = "delete_entry")
    => /\ last.wrote => (CollectionShape(file) /\ written.password = None)
       /\ ContainerShape(last.pre) =>
             /\ last.ok /\ ~last.deleted /\ ~last.wrote
             /\ file = last.pre

\* a delete of a stored id on a container of two entries
C7_Witness ==
    /\ last.op = "delete_entry"
    /\ ContainerShape(last.pre)
    /\ written.valid /\ Len(written.entries) = 2
    /\ Unwrap(last.id) \in {e.id : e \in Range(written.entries)}
    /\ ContainerShape(file)

\* the password of the call is not the one the stored container was made with
WrongPassword ==
    written.valid /\ IsSome(written.password) /\ last.password # written.password

\* C8 as stated: load_entries_with_password returns an error whenever the file
\* is no container (a plaintext collection, a blank or a missing file) and
\* whenever the password is wrong.
C8_LoadRequiresContainer ==
    (last.op = "load_entries_with_password")
    => /\ ~ContainerShape(last.pre) => ~last.ok
       /\ WrongPassword => ~last.ok

\* C8 as amended: on a missing or blank file it returns the empty collection
\* without decrypting anything; on any other file that is no container, and
\* with a wrong password, it returns an error; every other success is the
\* decryption of a container.
C8_LoadWithPassword ==
    (last.op = "load_entries_with_password")
    => /\ Blank(last.pre) => (last.ok /\ last.value = <<>>)
       /\ (~Blank(last.pre) /\ ~ContainerShape(last.pre)) => ~last.ok
       /\ WrongPassword => ~last.ok
       /\ (last.ok /\ ~Blank(last.pre)) =>
             /\ ContainerShape(last.pre)
             /\ written.valid /\ last.password = written.password
             /\ last.value = written.entries

\* a load with the other password on a container
C8_Witness ==
    /\ last.op = "load_entries_with_password"
    /\ ContainerShape(last.pre)
    /\ written.password = Some("p") /\ last.password = Some("q")
    /\ ~last.ok

\* C9: a file an encrypted save wrote is a container to the plaintext load
\* (password required, never a collection); a file a plaintext save wrote is
\* rejected by load_entries_with_password; no file that is not blank is loaded
\* by both.
C9_FormatDetection ==
    /\ (written.valid /\ IsSome(written.password)) =>
          /\ ContainerShape(file)
          /\ load_all_entries(file) = Err("Entries are encrypted, password required")
    /\ (written.valid /\ ~IsSome(written.password)) =>
          /\ CollectionShape(file)
          /\ load_all_entries(file) = Ok(written.entries)
          /\ \A p \in Passwords :
                load_entries_with_password(file, p) = Err("Failed to parse encrypted data")
    /\ ~Blank(file) =>
          \A p \in Passwords :
             ~(load_all_entries(file).ok /\ load_entries_with_password(file, p).ok)

\* the file is the container of two entries of an encrypted save
C9_Witness ==
    /\ written.valid /\ IsSome(written.password)
    /\ Len(written.entries) = 2
    /\ ContainerShape(file)
    /\ load_entries_with_password(file, Unwrap(written.password)).ok

(***************************************************************************)
(* SpecConc: two commands of the store run concurrently on the runtime.    *)
(* A command suspends at the read of the file (load_all_entries) and at    *)
(* the write (save_all_entries); what lies between is local to it.  The    *)
(* read and the write are each taken as one step of the file system.       *)
(*   tasks[t].entries   the collection the task loaded                     *)
(*   tasks[t].staleBy   the task that wrote the file after this task       *)
(*                      loaded and before it wrote (0: none)               *)
(*   lastWriter         the task that wrote the file last (0: none)        *)
(***************************************************************************)
Tasks == {1, 2}

IdleTask ==
    [pc |-> "idle", op |-> "none", entry |-> None, id |-> None, password |-> None,
     entries |-> <<>>, staleBy |-> 0, ok |-> FALSE, deleted |-> FALSE, wrote |-> FALSE]

\* the collections of pairwise distinct ids: what sequential saves leave
StoredCollections ==
    {c \in UNION {[1..n -> Entries] : n \in 0..MaxId} :
        \A i, k \in 1..Len(c) : i # k => c[i].id # c[k].id}

\* the passwords of the concurrent commands
ConcPasswords == {None, Some("p")}

InitConc ==
    /\ file \in {Missing} \cup {to_string_pretty(EntriesToJson(c)) : c \in StoredCollections}
    /\ last = NoCall
    /\ written = NotWritten
    /\ tasks = [t \in Tasks |-> IdleTask]
    /\ lastWriter = 0
    /\ cx = NoCipher

\* save_entry, line 52: the task reads the file
SaveLoad(t, entry, password) ==
    /\ tasks[t].pc = "idle"
    /\ tasks' = [tasks EXCEPT ![t] =
                    [IdleTask EXCEPT !.pc = "loaded", !.op = "save_entry",
                                     !.entry = Some(entry), !.password = password,
                                     !.entries = unwrap_or_default(load_all_entries(file))]]
    /\ UNCHANGED <<file, last, written, lastWriter, cx>>

\* delete_entry, line 66: the task reads the file
DeleteLoad(t, entry_id) ==
    /\ tasks[t].pc = "idle"
    /\ tasks' = [tasks EXCEPT ![t] =
                    [IdleTask EXCEPT !.pc = "loaded", !.op = "delete_entry",
                                     !.id = Some(entry_id),
                                     !.entries = unwrap_or_default(load_all_entries(file))]]
    /\ UNCHANGED <<file, last, written, lastWriter, cx>>

\* the task t has written: it is done, and the tasks that loaded before are stale
AfterWrite(t, ok, deleted) ==
    [u \in Tasks |->
        IF u = t
        THEN [tasks[t] EXCEPT !.pc = "done", !.ok = ok, !.deleted = deleted, !.wrote = ok]
        ELSE IF tasks[u].pc = "loaded" /\ ok
             THEN [tasks[u] EXCEPT !.staleBy = t]
             ELSE tasks[u]]

\* save_entry with the file read again at the write
SaveWriteReloads(t, rs, rn) ==
    /\ tasks[t].pc = "loaded" /\ tasks[t].op = "save_entry"
    /\ \E saved \in {save_all_entries(
                        upsert(unwrap_or_default(load_all_entries(file)),
                               Unwrap(tasks[t].entry)),
                        tasks[t].password, rs, rn)} :
          /\ file' = IF saved.ok THEN saved.val ELSE file
          /\ lastWriter' = IF saved.ok THEN t ELSE lastWriter
          /\ tasks' = AfterWrite(t, saved.ok, FALSE)
    /\ UNCHANGED <<last, written, cx>>

\* save_entry, lines 55-61: the upsert into what was loaded, and the write
SaveWrite(t, rs, rn) ==
    /\ tasks[t].pc = "loaded" /\ tasks[t].op = "save_entry"
    /\ \E saved \in {save_all_entries(upsert(tasks[t].entries, Unwrap(tasks[t].entry)),
                                      tasks[t].password, rs, rn)} :
          /\ file' = IF saved.ok THEN saved.val ELSE file
          /\ lastWriter' = IF saved.ok THEN t ELSE lastWriter
          /\ tasks' = AfterWrite(t, saved.ok, FALSE)
    /\ UNCHANGED <<last, written, cx>>

\* delete_entry, lines 67-76: the retain of what was loaded, and the write if
\* an entry went
DeleteWrite(t) ==
    /\ tasks[t].pc = "loaded" /\ tasks[t].op = "delete_entry"
    /\ \E entries \in {retain(tasks[t].entries, Unwrap(tasks[t].id))} :
          IF Len(entries) < Len(tasks[t].entries)
          THEN \E saved \in {save_all_entries(entries, None, 1, 1)} :
                  /\ file' = IF saved.ok THEN saved.val ELSE file
                  /\ lastWriter' = IF saved.ok THEN t ELSE lastWriter
                  /\ tasks' = AfterWrite(t, saved.ok, saved.ok)
          ELSE /\ tasks' = [tasks EXCEPT ![t].pc = "done", ![t].ok = TRUE]
               /\ UNCHANGED <<file, lastWriter>>
    /\ UNCHANGED <<last, written, cx>>

NextConc ==
    \/ \E t \in Tasks, entry \in Entries, password \in ConcPasswords :
          SaveLoad(t, entry, password)
    \/ \E t \in Tasks, entry_id \in Ids : DeleteLoad(t, entry_id)
    \/ \E t \in Tasks : \E rs \in RandsFor(tasks[t].password),
                           rn \in RandsFor(tasks[t].password) : SaveWrite(t, rs, rn)
    \/ \E t \in Tasks : DeleteWrite(t)

SpecConc == InitConc /\ [][NextConc]_vars

\* the collection a plaintext file or a container persists
Persisted(f) ==
    IF ContainerShape(f)
    THEN Collection(f.val.fields.encrypted_data.str.s.pt.text)
    ELSE Collection(f)

\* t and u saved entries of different ids, u loaded before t wrote and wrote
\* after it, and what u loaded did not hold t's entry
LostUpdateRun(t, u) ==
    /\ t # u
    /\ tasks[t].pc = "done" /\ tasks[t].op = "save_entry" /\ tasks[t].ok
    /\ tasks[u].pc = "done" /\ tasks[u].op = "save_entry" /\ tasks[u].ok
    /\ Unwrap(tasks[t].entry).id # Unwrap(tasks[u].entry).id
    /\ tasks[u].staleBy = t
    /\ Unwrap(tasks[t].entry) \notin Range(tasks[u].entries)

\* C2: when the second writer's read precedes the first writer's write, both
\* save_entry calls return success and the file, which is the second writer's,
\* lacks the first writer's entry.
C2_LostUpdate ==
    /\ \A t \in Tasks :
          (tasks[t].pc = "done" /\ tasks[t].op = "save_entry"
           /\ tasks[t].password # Some("")) => tasks[t].ok
    /\ \A t, u \in Tasks :
          LostUpdateRun(t, u) =>
             /\ lastWriter = u
             /\ Unwrap(tasks[u].entry) \in Range(Persisted(file))
             /\ Unwrap(tasks[t].entry) \notin Range(Persisted(file))
             /\ Unwrap(tasks[t].entry).id \in {e.id : e \in Range(Persisted(file))}
                   => Unwrap(tasks[t].entry).id \in {e.id : e \in Range(tasks[u].entries)}

\* two saves of new ids on an empty store raced, and one entry is lost
C2_Witness ==
    \E t, u \in Tasks :
       /\ LostUpdateRun(t, u)
       /\ tasks[t].entries = <<>> /\ tasks[u].entries = <<>>
       /\ Persisted(file) = <<Unwrap(tasks[u].entry)>>

(***************************************************************************)
(* SpecCrypto: the commands encrypt_data and decrypt_data of commands.rs   *)
(* on the texts and passwords below.                                       *)
(***************************************************************************)
\* the data the front end encrypts: "", white space, a sentence, documents
Datas ==
    {EmptyText, WsText, GarbageText,
     to_string_pretty(EntriesToJson(<<>>)),
     to_string(EntriesToJson(<<MemoryEntry(1, 2)>>))}

InitCrypto ==
    /\ file = Missing
    /\ last = NoCall
    /\ written = NotWritten
    /\ tasks = NoTasks
    /\ lastWriter = 0
    /\ cx = [pc |-> "start", data |-> EmptyText, password |-> "",
             encrypted |-> Err("none"), params |-> <<>>, decrypted |-> Err("none"),
             field |-> "none"]

\* commands.rs encrypt_data(data, password)
EncryptData(data, password, rs, rn) ==
    /\ cx.pc = "start"
    /\ cx' = [cx EXCEPT !.pc = "encrypted", !.data = data, !.password = password,
                        !.encrypted = encrypt(data, password, rs, rn)]
    /\ UNCHANGED <<file, last, written, tasks, lastWriter>>

\* commands.rs decrypt_data(params): the container of encrypt_data with a
\* password
DecryptData(password) ==
    /\ cx.pc = "encrypted" /\ cx.encrypted.ok
    /\ \E params \in {[encrypted_data |-> cx.encrypted.val.encrypted_data,
                       nonce |-> cx.encrypted.val.nonce,
                       salt |-> cx.encrypted.val.salt,
                       password |-> password]} :
          cx' = [cx EXCEPT !.pc = "decrypted", !.params = Some(params),
                           !.decrypted = decrypt(params)]
    /\ UNCHANGED <<file, last, written, tasks, lastWriter>>

\* what a field of a container can be altered into: the same bytes with a
\* bit flipped, the field of another container, bytes of another length, a
\* text that is no base64, the empty text
Alterations ==
    {<<"flip", 0>>, <<"utf8", 0>>, <<"text", 0>>, <<"empty", 0>>}
    \cup {<<"salt", r>> : r \in Rands}
    \cup {<<"nonce", r>> : r \in Rands}
    \cup {<<"len", n>> : n \in {NONCE_LENGTH - 1, SALT_LENGTH - 1, 64}}

Altered(str, how) ==
    CASE how[1] = "flip" -> b64_encode(flipped(str.s))
      [] how[1] = "utf8" -> b64_encode(as_bytes(GarbageText))
      [] how[1] = "text" -> [t |-> "text", s |-> <<"*">>]
      [] how[1] = "empty" -> [t |-> "text", s |-> <<>>]
      [] how[1] = "salt" -> b64_encode(generate_salt(how[2]))
      [] how[1] = "nonce" -> b64_encode(generate_nonce(how[2]))
      [] how[1] = "len" -> b64_encode([kind |-> "rand", len |-> how[2], v |-> 1])

\* the two strings differ
Differ(a, b) == a.t # b.t \/ a.s # b.s

ContainerFields == {"encrypted_data", "nonce", "salt"}

\* commands.rs decrypt_data(params): the container of encrypt_data with one
\* field altered and the password of encrypt_data
DecryptAltered(field) ==
    /\ cx.pc = "encrypted" /\ cx.encrypted.ok
    /\ \E how \in Alterations :
       \E str \in {Altered(cx.encrypted.val[field], how)} :
       \E params \in {[[encrypted_data |-> cx.encrypted.val.encrypted_data,
                        nonce |-> cx.encrypted.val.nonce,
                        salt |-> cx.encrypted.val.salt,
                        password |-> cx.password] EXCEPT ![field] = str]} :
          /\ Differ(str, cx.encrypted.val[field])
          /\ cx' = [cx EXCEPT !.pc = "altered", !.params = Some(params), !.field = field,
                              !.decrypted = decrypt(params)]
    /\ UNCHANGED <<file, last, written, tasks, lastWriter>>

NextCrypto ==
    \/ \E data \in Datas, password \in Passwords, rs \in Rands, rn \in Rands :
          EncryptData(data, password, rs, rn)
    \/ \E password \in Passwords : DecryptData(password)
    \/ \E field \in ContainerFields : DecryptAltered(field)

SpecCrypto == InitCrypto /\ [][NextCrypto]_vars

\* C10: for a password and a text that are not empty, encrypt succeeds and
\* decrypt of its container with the same password returns the text.
C10_RoundTrip ==
    /\ (cx.pc # "start" /\ cx.password # "" /\ ~is_empty(cx.data)) => cx.encrypted.ok
    /\ (cx.pc = "decrypted" /\ Unwrap(cx.params).password = cx.password) =>
          /\ cx.decrypted.ok
          /\ cx.decrypted.val = cx.data

\* a sentence came back from decrypt
C10_Witness ==
    /\ cx.pc = "decrypted"
    /\ Unwrap(cx.params).password = cx.password
    /\ cx.data = GarbageText
    /\ cx.decrypted.ok /\ cx.decrypted.val = GarbageText

(***************************************************************************)
(* The cipher under a wrong password.                                      *)
(***************************************************************************)
\* decrypt of the container encrypt(d, p1) makes, with the password p2
DecryptOfEncrypt(d, p1, p2, rs, rn) ==
    LET encrypted == encrypt(d, p1, rs, rn)
    IN decrypt([encrypted_data |-> encrypted.val.encrypted_data,
                nonce |-> encrypted.val.nonce,
                salt |-> encrypted.val.salt,
                password |-> p2])

\* no write of the entries file has happened and no response is pending
Fresh == last.op = "none" /\ ~written.valid

\* C11: for a text d and passwords p1 # p2 that are not empty, decrypt of the
\* container of encrypt(d, p1) with p2 returns the authentication error and no
\* text; load_entries_with_password(p2) on a file saved with p1 returns that
\* error and leaves the file the container it was.
C11_WrongPassword ==
    /\ Fresh =>
          \A d \in Datas \ {EmptyText}, p1 \in Passwords \ {""} :
          \A p2 \in Passwords \ {"", p1}, rs \in Rands, rn \in Rands :
             /\ encrypt(d, p1, rs, rn).ok
             /\ DecryptOfEncrypt(d, p1, p2, rs, rn) =
                   Err("Decryption failed (possibly wrong password)")
    /\ (/\ last.op = "load_entries_with_password"
        /\ WrongPassword
        /\ Unwrap(last.password) # "") =>
          /\ ~last.ok
          /\ last.err = "Decryption failed (possibly wrong password)"
          /\ last.value = <<>>
          /\ file = last.pre
          /\ ContainerShape(file)

\* a load with "p" of a container of one entry that was saved with "q"
C11_Witness ==
    /\ last.op = "load_entries_with_password"
    /\ last.password = Some("p")
    /\ written.valid /\ written.password = Some("q") /\ Len(written.entries) = 1
    /\ ContainerShape(file)
    /\ ~last.ok

\* C12: decrypt of a container of encrypt with one of its three fields altered
\* and the password of encrypt returns an error and no text.
C12_TamperDetected ==
    (cx.pc = "altered") =>
        /\ ~cx.decrypted.ok
        /\ cx.decrypted.val = <<>>
        /\ (cx.field = "encrypted_data" /\ b64_decode(Unwrap(cx.params).encrypted_data).ok)
              => cx.decrypted.err = "Decryption failed (possibly wrong password)"

\* the salt with a bit flipped: the key differs and the tag check fails
C12_Witness ==
    /\ cx.pc = "altered"
    /\ cx.field = "salt"
    /\ Unwrap(cx.params).salt = b64_encode(flipped(b64_decode(cx.encrypted.val.salt).val))
    /\ cx.decrypted = Err("Decryption failed (possibly wrong password)")

(***************************************************************************)
(* SpecSalt: the store over a random source that never yields the same 32  *)
(* bytes twice (OsRng; its 12 byte values may repeat), so that at most     *)
(* MaxRand saves encrypt.  cx records the salts drawn and every container  *)
(* that was written to the entries file.                                   *)
(***************************************************************************)
\* the entries of the runs of SpecSalt: the two versions of one entry
SaltEntries == {MemoryEntry(1, v) : v \in Variants}

InitSalt ==
    /\ file \in InitFiles
    /\ last = NoCall
    /\ written = NotWritten
    /\ tasks = NoTasks
    /\ lastWriter = 0
    /\ cx = [pc |-> "rng", drawn |-> {}, containers |-> <<>>]

\* save_entry: encrypt draws a salt the source has not yielded before
SaveEntryDrawing(entry, password, rs, rn) ==
    /\ SaveEntryCall(entry, password, rs, rn)
    /\ IF IsSome(password) /\ Unwrap(password) # ""
       THEN /\ rs \notin cx.drawn
            /\ cx' = [cx EXCEPT !.drawn = @ \cup {rs},
                                !.containers =
                                    IF last'.wrote
                                    THEN Append(@, from_str(file', EncryptionResultFromJson).val)
                                    ELSE @]
       ELSE UNCHANGED cx

NextSalt ==
    \/ \E entry \in SaltEntries, password \in OptPasswords :
          \E rs \in RandsFor(password), rn \in RandsFor(password) :
             SaveEntryDrawing(entry, password, rs, rn)
    \/ DeleteEntry(1)
    \/ Respond

SpecSalt == InitSalt /\ [][NextSalt]_vars

\* the key and the text a container was sealed with
KeyOf(container) == b64_decode(container.encrypted_data).val.key
TextOf(container) == b64_decode(container.encrypted_data).val.pt

\* C13: every save with a password draws a salt and a nonce of its own: the
\* container it writes carries them, and no two containers ever written carry
\* the same salt or the same pair of key and nonce.
C13_FreshSaltAndNonce ==
    /\ \A i \in 1..Len(cx.containers) : \A j \in (i + 1)..Len(cx.containers) :
          /\ cx.containers[i].salt # cx.containers[j].salt
          /\ <<KeyOf(cx.containers[i]), cx.containers[i].nonce>>
                # <<KeyOf(cx.containers[j]), cx.containers[j].nonce>>
    /\ (last.op = "save_entry" /\ last.wrote /\ IsSome(last.password)) =>
          /\ ContainerShape(file)
          /\ cx.containers # <<>>
          /\ from_str(file, EncryptionResultFromJson).val = cx.containers[Len(cx.containers)]

\* two saves of the same collection with the same password and the same nonce
C13_Witness ==
    /\ Len(cx.containers) >= 2
    /\ \E i \in 1..Len(cx.containers) : \E j \in (i + 1)..Len(cx.containers) :
          /\ KeyOf(cx.containers[i]).password = KeyOf(cx.containers[j]).password
          /\ TextOf(cx.containers[i]) = TextOf(cx.containers[j])
          /\ cx.containers[i].nonce = cx.containers[j].nonce
          /\ cx.containers[i].salt # cx.containers[j].salt

(***************************************************************************)
(* Search: what a filter asks of an entry, stated over sets.               *)
(***************************************************************************)
\* the two characters are the same letter in either case, or the same character
SameLetter(a, b) ==
    \/ a = b
    \/ \E i \in 1..Len(Uppers) : {a, b} = {Uppers[i], Lowers[i]}

\* needle occurs in hay when case is ignored
OccursIn(needle, hay) ==
    \E k \in 0..(Len(hay) - Len(needle)) :
        \A i \in 1..Len(needle) : SameLetter(hay[k + i], needle[i])

Overlap(a, b) == Range(a) \cap Range(b) # {}

\* the tags of an entry: none without metadata or without tags
TagsOf(entry) ==
    IF entry.metadata = None \/ Unwrap(entry.metadata).tags = None THEN <<>>
    ELSE Unwrap(Unwrap(entry.metadata).tags)

KeywordHolds(entry, filter) ==
    filter.keyword # None =>
        \/ OccursIn(Unwrap(filter.keyword), entry.title)
        \/ OccursIn(Unwrap(filter.keyword), entry.content)

Satisfies(entry, filter) ==
    /\ KeywordHolds(entry, filter)
    /\ filter.memory_type # None => entry.memory_type = Unwrap(filter.memory_type)
    /\ filter.emotion_tags # None => Overlap(Unwrap(filter.emotion_tags), entry.emotion_tags)
    /\ filter.date_range # None =>
          /\ Unwrap(filter.date_range).start <= entry.created_at
          /\ entry.created_at <= Unwrap(filter.date_range).end
    /\ filter.tags # None => Overlap(Unwrap(filter.tags), TagsOf(entry))

\* result holds exactly the entries of collection that Wanted, each once, in
\* the order of collection
ExactlyInOrder(result, collection, Wanted(_)) ==
    /\ Range(result) = {e \in Range(collection) : Wanted(e)}
    /\ \A i \in 1..Len(result) : \A j \in (i + 1)..Len(result) :
          \E k \in 1..Len(collection) : \E l \in (k + 1)..Len(collection) :
             collection[k] = result[i] /\ collection[l] = result[j]

\* the last call was a search on a blank or plaintext store
Searched == last.op = "search_entries" /\ PlainStore(last.pre)

\* C14: search_entries with a filter of five unset fields returns the whole
\* collection of a plaintext store, in stored order.
C14_UnsetFilterReturnsAll ==
    (Searched /\ Unwrap(last.filter) = NoFilter) =>
        /\ last.ok
        /\ last.value = Collection(last.pre)

\* the unset filter on a store of two entries, one of them without metadata
C14_Witness ==
    /\ Searched /\ Unwrap(last.filter) = NoFilter
    /\ Len(last.value) = 2
    /\ \E i \in 1..2 : last.value[i].metadata = None
    /\ \E i \in 1..2 : last.value[i].metadata # None

\* C15: search_entries returns exactly the entries that satisfy every set
\* field of the filter: the keyword, equality of the type, an overlap of the
\* emotion tags, start <= created_at <= end, an overlap of the tags; in
\* stored order.
C15_SearchIsConjunction ==
    Searched =>
        /\ last.ok
        /\ ExactlyInOrder(last.value, Collection(last.pre),
                          LAMBDA e : Satisfies(e, Unwrap(last.filter)))

\* a filter of four set fields kept one of two entries, the one created at
\* the end of the date range
C15_Witness ==
    /\ Searched
    /\ Unwrap(last.filter).keyword = None /\ Unwrap(last.filter).tags # None
    /\ Unwrap(last.filter).date_range # None
    /\ Len(Collection(last.pre)) = 2
    /\ Len(last.value) = 1
    /\ last.value[1].created_at = 2

\* C20: with only a keyword set, an entry is returned iff the keyword occurs
\* in its title or in its content when case is ignored: "joy" finds the title
\* "Joy" and the content "jOys", "OYS" finds the content only.
C20_KeywordIgnoresCase ==
    (/\ Searched
     /\ Unwrap(last.filter).keyword # None
     /\ Unwrap(last.filter) = [NoFilter EXCEPT !.keyword = Unwrap(last.filter).keyword]) =>
        /\ last.ok
        /\ ExactlyInOrder(last.value, Collection(last.pre),
                          LAMBDA e : KeywordHolds(e, Unwrap(last.filter)))
        /\ \A i \in 1..Len(Collection(last.pre)) :
              LET e == Collection(last.pre)[i]
                  found == e \in Range(last.value)
              IN /\ (Unwrap(last.filter).keyword = <<"j", "o", "y">>
                      /\ e.title = <<"J", "o", "y">>) => found
                 /\ (Unwrap(last.filter).keyword = <<"O", "Y", "S">>
                      /\ e.title = <<"J", "o", "y">> /\ e.content = <<"a">>) => ~found

\* "OYS" on a store of an entry titled "Joy" and of one with the content
\* "jOys" returned the second only
C20_Witness ==
    /\ Searched
    /\ Unwrap(last.filter) = [NoFilter EXCEPT !.keyword = Some(<<"O", "Y", "S">>)]
    /\ Len(Collection(last.pre)) = 2
    /\ Collection(last.pre)[1].title = <<"J", "o", "y">>
    /\ last.value = <<Collection(last.pre)[2]>>
    /\ last.value[1].content = <<"j", "O", "y", "s">>

(***************************************************************************)
(* Repeated saves.                                                         *)
(***************************************************************************)
\* the step is a call of save_entry without password with the entry of the
\* last write of the file, itself a save_entry without password
SavesAgain ==
    /\ last.op = "none" /\ last'.op = "save_entry"
    /\ last'.password = None
    /\ written.valid /\ written.password = None
    /\ written.entry = last'.entry

\* C19: a save_entry without password of the entry that the last write of the
\* file saved, also without password, succeeds and leaves the file as it is:
\* the same entries with the same content in the same order.
C19_SaveTwiceIsSaveOnce ==
    [][SavesAgain =>
          /\ last'.ok
          /\ file' = file
          /\ Collection(file') = written.entries
          /\ written'.entries = written.entries]_vars

\* a save that wrote a store of two entries and left the file as it was
C19_Witness ==
    /\ last.op = "save_entry" /\ last.password = None
    /\ last.wrote
    /\ CollectionShape(last.pre) /\ file = last.pre
    /\ Len(Collection(file)) = 2
    /\ Collection(file)[2] = Unwrap(last.entry)

(***************************************************************************)
(* Invalid input to the cipher.                                            *)
(***************************************************************************)
\* the fields of params that are the empty text, that are no base64
EmptyFields(params) == {n \in ContainerFields : str_is_empty(params[n])}
Undecodable(params) == {n \in ContainerFields : ~b64_decode(params[n]).ok}

\* C18: encrypt returns an error for an empty text or an empty password;
\* decrypt returns an error, never a text and never a panic, when a field or
\* the password is empty, when a field is no base64 and when the nonce is not
\* of 12 bytes.
C18_InvalidInputIsAnError ==
    /\ (cx.pc # "start" /\ (is_empty(cx.data) \/ cx.password = "")) =>
          cx.encrypted = Err("Data and password cannot be empty")
    /\ (cx.pc \in {"decrypted", "altered"}) =>
          LET params == Unwrap(cx.params)
          IN /\ cx.decrypted.err # "panic"
             /\ (EmptyFields(params) # {} \/ params.password = "") =>
                   cx.decrypted = Err("All decryption parameters are required")
             /\ (EmptyFields(params) = {} /\ params.password # ""
                 /\ Undecodable(params) # {}) =>
                   /\ ~cx.decrypted.ok /\ cx.decrypted.val = <<>>
                   /\ cx.decrypted.err \in {"Failed to decode encrypted data",
                                             "Failed to decode nonce",
                                             "Failed to decode salt"}
             /\ (EmptyFields(params) = {} /\ params.password # ""
                 /\ Undecodable(params) = {}
                 /\ bytes_len(b64_decode(params.nonce).val) # NONCE_LENGTH) =>
                   cx.decrypted = Err("Invalid nonce length")

\* decrypt was given a nonce of 11 bytes
C18_Witness ==
    /\ cx.pc = "altered" /\ cx.field = "nonce"
    /\ Unwrap(cx.params).nonce.t = "b64"
    /\ bytes_len(b64_decode(Unwrap(cx.params).nonce).val) = NONCE_LENGTH - 1
    /\ cx.decrypted = Err("Invalid nonce length")

(***************************************************************************)
(* crypto.rs: validate_password_strength.  A password is a sequence of     *)
(* characters; LetterE (e with an accent, a letter of two bytes) and       *)
(* SignEuro (the euro sign, three bytes) are the characters outside ASCII. *)
(***************************************************************************)
Digits == <<"0", "1", "2", "3", "4", "5", "6", "7", "8", "9">>
LetterE == "e'"
SignEuro == "EUR"

\* char::len_utf8
len_utf8(c) == IF c = LetterE THEN 2 ELSE IF c = SignEuro THEN 3 ELSE 1

\* str::len: the number of bytes
str_len(password) ==
    LET sum[i \in 0..Len(password)] ==
            IF i = 0 THEN 0 ELSE sum[i - 1] + len_utf8(password[i])
    IN sum[Len(password)]

is_ascii_lowercase(c) == \E i \in 1..Len(Lowers) : Lowers[i] = c
is_ascii_uppercase(c) == \E i \in 1..Len(Uppers) : Uppers[i] = c
is_ascii_digit(c) == \E i \in 1..Len(Digits) : Digits[i] = c

\* char::is_ascii_alphanumeric, taken for char::is_alphanumeric
is_ascii_alphanumeric(c) ==
    is_ascii_lowercase(c) \/ is_ascii_uppercase(c) \/ is_ascii_digit(c)

\* char::is_alphanumeric: the letters and digits of Unicode
is_alphanumeric(c) ==
    is_ascii_lowercase(c) \/ is_ascii_uppercase(c) \/ is_ascii_digit(c) \/ c = LetterE

\* Iterator::any over the characters
any(password, Test(_)) == \E i \in 1..Len(password) : Test(password[i])

\* what the seven tests of validate_password_strength add to the score
score_increments(password) ==
    <<IF str_len(password) >= 8 THEN 25 ELSE 0,
      IF str_len(password) >= 12 THEN 15 ELSE 0,
      IF str_len(password) >= 16 THEN 10 ELSE 0,
      IF any(password, is_ascii_lowercase) THEN 10 ELSE 0,
      IF any(password, is_ascii_uppercase) THEN 10 ELSE 0,
      IF any(password, is_ascii_digit) THEN 10 ELSE 0,
      IF any(password, LAMBDA c : ~is_alphanumeric(c)) THEN 20 ELSE 0>>

\* += of u8 (the sum modulo 2^8)
add_u8(a, b) == (a + b) % 256

\* BackendEncryption::validate_password_strength
validate_password_strength(password) ==
    IF password = <<>> THEN 0
    ELSE LET incs == score_increments(password)
             score[i \in 0..Len(incs)] ==
                 IF i = 0 THEN 0 ELSE add_u8(score[i - 1], incs[i])
         IN IF score[Len(incs)] < 100 THEN score[Len(incs)] ELSE 100

\* the largest value the accumulator would take in unbounded arithmetic
widest(password) ==
    LET incs == score_increments(password)
        sum[i \in 0..Len(incs)] == IF i = 0 THEN 0 ELSE sum[i - 1] + incs[i]
    IN IF password = <<>> THEN 0 ELSE sum[Len(incs)]

(***************************************************************************)
(* SpecStrength: the command validate_password_strength on the passwords   *)
(* below.                                                                  *)
(***************************************************************************)
Weak == <<"w", "e", "a", "k">>
Strong ==
    <<"S", "t", "r", "o", "n", "g", "P", "@", "s", "s", "w", "0", "r", "d", "1", "2", "3">>

Kinds == <<"a", "Z", "7", "@", LetterE, SignEuro>>
Fills == {"a", LetterE}

StrengthPasswords ==
    {Weak, Strong}
    \cup {SelectSeq(Kinds, LAMBDA c : c \in head) \o [i \in 1..n |-> fill] :
             head \in SUBSET Range(Kinds), fill \in Fills, n \in 0..MaxFill}

InitStrength ==
    /\ file = Missing
    /\ last = NoCall
    /\ written = NotWritten
    /\ tasks = NoTasks
    /\ lastWriter = 0
    /\ \E password \in StrengthPasswords :
          cx = [pc |-> "start", password |-> password, score |-> 0, wide |-> 0]

\* commands.rs validate_password_strength(password)
ValidatePasswordStrength ==
    /\ cx.pc = "start"
    /\ cx' = [cx EXCEPT !.pc = "scored",
                        !.score = validate_password_strength(cx.password),
                        !.wide = widest(cx.password)]
    /\ UNCHANGED <<file, last, written, tasks, lastWriter>>

NextStrength == ValidatePasswordStrength

SpecStrength == InitStrength /\ [][NextStrength]_vars

\* the kinds of characters of a password, read off the characters
LowerLetters == {Lowers[i] : i \in 1..Len(Lowers)}
UpperLetters == {Uppers[i] : i \in 1..Len(Uppers)}
DigitChars == {Digits[i] : i \in 1..Len(Digits)}
SignChars == {"@", SignEuro}
Has(password, chars) == Range(password) \cap chars # {}

\* C16: the empty password scores 0; a password of fewer than 8 characters
\* that are all lowercase ASCII letters, such as "weak", scores 25; a password
\* of 17 characters with an upper, a lower, a digit and a sign scores 100.
C16_ScoreBoundaries ==
    (cx.pc = "scored") =>
        /\ cx.password = <<>> => cx.score = 0
        /\ (cx.password # <<>> /\ Len(cx.password) < 8
            /\ Range(cx.password) \subseteq LowerLetters) => cx.score = 25
        /\ (/\ Len(cx.password) = 17
            /\ Has(cx.password, LowerLetters) /\ Has(cx.password, UpperLetters)
            /\ Has(cx.password, DigitChars) /\ Has(cx.password, SignChars)) =>
              cx.score > 80 /\ cx.score = 100

\* the sum of the rubric: the points of the length in bytes and of the kinds
Rubric(password) ==
    IF password = <<>> THEN 0
    ELSE (CASE str_len(password) >= 16 -> 50
            [] str_len(password) \in 12..15 -> 40
            [] str_len(password) \in 8..11 -> 25
            [] OTHER -> 0)
         + 10 * Cardinality({K \in {LowerLetters, UpperLetters, DigitChars} :
                                Has(password, K)})
         + (IF Has(password, SignChars) THEN 20 ELSE 0)

Unloadable(f) == ~Blank(f) /\ ~CollectionShape(f)

\* C21: with the tags of the filter set, no entry without metadata and no
\* entry whose metadata has no tags is returned, whatever the other fields of
\* the filter are.
C21_TagsFilterNeedsTags ==
    (last.op = "search_entries" /\ last.ok /\ Unwrap(last.filter).tags # None) =>
        /\ \A i \in 1..Len(last.value) :
              /\ last.value[i].metadata # None
              /\ Unwrap(last.value[i].metadata).tags # None
        /\ \A i \in 1..Len(Collection(last.pre)) :
              LET e == Collection(last.pre)[i]
              IN (e.metadata = None \/ Unwrap(e.metadata).tags = None)
                    => e \notin Range(last.value)

\* a filter of tags only on a store of an entry with metadata without tags and
\* of an entry with the tag returned the second only
C21_Witness ==
    /\ last.op = "search_entries" /\ last.ok
    /\ Unwrap(last.filter) = [NoFilter EXCEPT !.tags = Some(<<"t">>)]
    /\ Len(Collection(last.pre)) = 2
    /\ Collection(last.pre)[1].metadata # None
    /\ Unwrap(Collection(last.pre)[1].metadata).tags = None
    /\ last.value = <<Collection(last.pre)[2]>>

C26_DeleteOnUnloadableFile ==
    (last.op = "delete_entry" /\ Unloadable(last.pre)) =>
        /\ last.ok /\ last.err = "none"
        /\ ~last.deleted
        /\ ~last.wrote
        /\ file = last.pre

\* a delete on a document that is no JSON
C26_Witness ==
    /\ last.op = "delete_entry"
    /\ last.pre = GarbageText
    /\ last.ok /\ ~last.deleted
    /\ file = GarbageText

\* C27: save_entry with the password "" returns the error of encrypt and
\* leaves the file as it was: no plaintext is written in its place, nothing is
\* cut or rewritten.
C27_EmptyPasswordSaveFails ==
    (last.op = "save_entry" /\ last.password = Some("")) =>
        /\ ~last.ok
        /\ last.err = "Data and password cannot be empty"
        /\ ~last.wrote
        /\ file = last.pre

\* a save with the password "" on a plaintext store of one other entry
C27_Witness ==
    /\ last.op = "save_entry" /\ last.password = Some("")
    /\ CollectionShape(last.pre) /\ Len(Collection(last.pre)) = 1
    /\ Unwrap(last.entry).id # Collection(last.pre)[1].id
    /\ ~last.ok /\ file = last.pre

(***************************************************************************)
(* The ids of the stored entries.                                          *)
(***************************************************************************)
\* no two entries of the collection have the same id
DistinctIds(entries) ==
    \A i \in 1..Len(entries) : \A k \in (i + 1)..Len(entries) :
        entries[i].id # entries[k].id

\* C25: from a missing file or a collection of pairwise distinct ids, whatever
\* save_entry and delete_entry calls run and however their reads and writes
\* interleave, the collection the entries file persists never holds two
\* entries of one id.
C25_IdsStayDistinct ==
    /\ DistinctIds(Persisted(file))
    /\ \A t \in Tasks : DistinctIds(tasks[t].entries)

\* two saves of the same id on a store of two entries, the second of which
\* loaded before the first wrote: the file still holds two entries
C25_Witness ==
    \E t, u \in Tasks :
       /\ t # u
       /\ tasks[t].pc = "done" /\ tasks[u].pc = "done"
       /\ tasks[t].op = "save_entry" /\ tasks[u].op = "save_entry"
       /\ tasks[t].ok /\ tasks[u].ok
       /\ Unwrap(tasks[t].entry).id = Unwrap(tasks[u].entry).id
       /\ Unwrap(tasks[t].entry) # Unwrap(tasks[u].entry)
       /\ tasks[u].staleBy = t
       /\ Len(tasks[u].entries) = 2
       /\ Len(Persisted(file)) = 2

(***************************************************************************)
(* crypto.rs: hash_sha256 and verify_integrity.  SHA-256 is taken as free  *)
(* of collisions: the digest of bytes is a record of these bytes.          *)
(* SpecHash: a text is hashed, then a text is verified against the hash.   *)
(***************************************************************************)
\* Sha256::update and finalize: the digest of 32 bytes
sha256(bytes) == [kind |-> "sha256", len |-> 32, of |-> bytes]

\* hex::encode: the lowercase hexadecimal digits of the bytes
hex_encode(bytes) == [t |-> "hex", s |-> bytes]

\* str::trim
trim(text) == IF text.kind = "ws" THEN EmptyText ELSE text

\* hash_sha256 of the text without the white space around it
hash_sha256_trimmed(data) == hex_encode(sha256(as_bytes(trim(data))))

\* BackendEncryption::hash_sha256
hash_sha256(data) == hex_encode(sha256(as_bytes(data)))

\* BackendEncryption::verify_integrity
verify_integrity(data, expected_hash) ==
    LET actual_hash == hash_sha256(data)
    IN actual_hash = expected_hash

\* the texts that are hashed: "", white space, a sentence, and the stored
\* collections, pretty-printed and compact
HashDatas ==
    {EmptyText, WsText, GarbageText}
    \cup {to_string_pretty(EntriesToJson(c)) : c \in StoredCollections}
    \cup {to_string(EntriesToJson(c)) : c \in StoredCollections}

InitHash ==
    /\ file = Missing
    /\ last = NoCall
    /\ written = NotWritten
    /\ tasks = NoTasks
    /\ lastWriter = 0
    /\ cx = [pc |-> "start", data |-> EmptyText, hash |-> hex_encode(as_bytes(EmptyText)),
             other |-> EmptyText, verified |-> FALSE]

\* hash_sha256(data)
HashSha256(data) ==
    /\ cx.pc = "start"
    /\ cx' = [cx EXCEPT !.pc = "hashed", !.data = data, !.hash = hash_sha256(data)]
    /\ UNCHANGED <<file, last, written, tasks, lastWriter>>

\* verify_integrity(other, hash) with the hash of the text hashed before
VerifyIntegrity(other) ==
    /\ cx.pc = "hashed"
    /\ cx' = [cx EXCEPT !.pc = "verified", !.other = other,
                        !.verified = verify_integrity(other, cx.hash)]
    /\ UNCHANGED <<file, last, written, tasks, lastWriter>>

NextHash ==
    \/ \E data \in HashDatas : HashSha256(data)
    \/ \E other \in HashDatas : VerifyIntegrity(other)

SpecHash == InitHash /\ [][NextHash]_vars

\* C23: verify_integrity(d, hash_sha256(d)) is true for every text d, and
\* verify_integrity(d, hash_sha256(d2)) is false for every text d other than
\* d2.
C23_HashIntegrity ==
    (cx.pc = "verified") => (cx.verified <=> cx.other = cx.data)

\* the compact document of a collection did not verify against the hash of the
\* pretty-printed document of the same collection
C23_Witness ==
    /\ cx.pc = "verified"
    /\ cx.data.kind = "json" /\ cx.other.kind = "json"
    /\ cx.data.val = cx.other.val
    /\ cx.data.pretty /\ ~cx.other.pretty
    /\ ~cx.verified

(***************************************************************************)
(* models.rs: MemoryEntry::new, update, add_emotion_tag and                *)
(* remove_emotion_tag; commands.rs: what create_memory_entry and           *)
(* update_memory_entry do to the entry.                                    *)
(***************************************************************************)
\* MemoryEntry::new; id is what Uuid::new_v4 yields, now what Utc::now reads
new(id, title, content, memory_type, now) ==
    [id |-> id, title |-> title, content |-> content, memory_type |-> memory_type,
     emotion_tags |-> <<>>, created_at |-> now, updated_at |-> now,
     is_encrypted |-> FALSE, attachments |-> None, metadata |-> None]

\* u32::max
max(a, b) == IF a > b THEN a ELSE b

\* update that leaves updated_at alone when nothing is given
update_if_given(entry, title, content, now) ==
    LET titled == IF IsSome(title) THEN [entry EXCEPT !.title = Unwrap(title)] ELSE entry
    IN IF IsSome(title) \/ IsSome(content)
       THEN [titled EXCEPT !.content = IF IsSome(content) THEN Unwrap(content) ELSE @,
                           !.updated_at = now]
       ELSE titled

\* MemoryEntry::update
update(entry, title, content, now) ==
    LET titled == IF IsSome(title) THEN [entry EXCEPT !.title = Unwrap(title)] ELSE entry
        count == Len(Unwrap(content))
        filled ==
            IF IsSome(content)
            THEN [titled EXCEPT
                    !.content = Unwrap(content),
                    !.metadata =
                        IF IsSome(titled.metadata)
                        THEN Some([Unwrap(titled.metadata) EXCEPT
                                     !.word_count = Some(count),
                                     !.reading_time = Some(max(count \div 200, 1))])
                        ELSE None]
            ELSE titled
    IN [filled EXCEPT !.updated_at = now]

\* add_emotion_tag without the test: the tag is always pushed
add_emotion_tag_always(entry, tag) ==
    [entry EXCEPT !.emotion_tags = Append(@, tag)]

\* MemoryEntry::add_emotion_tag
add_emotion_tag(entry, tag) ==
    IF tag \in Range(entry.emotion_tags) THEN entry
    ELSE [entry EXCEPT !.emotion_tags = Append(@, tag)]

\* MemoryEntry::remove_emotion_tag
remove_emotion_tag(entry, tag) ==
    [entry EXCEPT !.emotion_tags = SelectSeq(@, LAMBDA t : t # tag)]

\* the loop of the commands: every string that names an EmotionTag is added
add_emotion_tags(entry, tag_strs) ==
    LET added[i \in 0..Len(tag_strs)] ==
            IF i = 0 THEN entry
            ELSE IF VariantNamed(EmotionTags, tag_strs[i]).ok
                 THEN add_emotion_tag(added[i - 1], VariantNamed(EmotionTags, tag_strs[i]).val)
                 ELSE added[i - 1]
    IN added[Len(tag_strs)]

\* create_memory_entry, lines 59-85: the entry it hands to save_entry
create_memory_entry(id, title, content, memory_type, emotion_tags, now) ==
    LET parsed == IF VariantNamed(MemoryTypes, memory_type).ok
                  THEN VariantNamed(MemoryTypes, memory_type).val
                  ELSE "Text"
        entry == add_emotion_tags(new(id, title, content, parsed, now), emotion_tags)
        word_count == Len(entry.content)
    IN [entry EXCEPT !.metadata = Some(MemoryMetadata(word_count, None))]

\* update_memory_entry, lines 115-126: the entry it hands to save_entry
update_memory_entry(entry, title, content, emotion_tags, now) ==
    LET updated == update(entry, title, content, now)
    IN IF IsSome(emotion_tags)
       THEN add_emotion_tags([updated EXCEPT !.emotion_tags = <<>>], Unwrap(emotion_tags))
       ELSE updated

(***************************************************************************)
(* SpecEntry: one entry is created and then changed by any sequence of     *)
(* calls, under a clock that never runs backwards.                         *)
(*   cx.entry   the entry        cx.now    the last reading of the clock   *)
(*   cx.born    its id and created_at at creation                          *)
(*   cx.op, cx.arg   the last call and its arguments                       *)
(***************************************************************************)
Clock == 0..MaxClock
Titles == {<<"J", "o", "y">>, <<"b">>}
Contents == {<<"a">>, <<"j", "O", "y", "s">>}
TypeStrings == {"image", "bogus"}
ChangedTags == {"Joy", "Hope"}
\* the tag lists of the front end: with a tag twice, with strings that name
\* no tag
TagStrings ==
    {<<>>, <<"joy">>, <<"hope", "joy", "hope">>, <<"Joy", "x">>, <<"joy", "joy">>}

InitEntry ==
    /\ file = Missing
    /\ last = NoCall
    /\ written = NotWritten
    /\ tasks = NoTasks
    /\ lastWriter = 0
    /\ cx = [pc |-> "start", entry |-> new(0, <<>>, <<>>, "Text", 0), now |-> 0,
             born |-> [id |-> 0, created_at |-> 0], op |-> "none", arg |-> <<>>]

Created(entry, op, now) ==
    /\ cx.pc = "start"
    /\ cx' = [pc |-> "live", entry |-> entry, now |-> now,
              born |-> [id |-> entry.id, created_at |-> entry.created_at],
              op |-> op, arg |-> <<>>]
    /\ UNCHANGED <<file, last, written, tasks, lastWriter>>

New(id, title, content, memory_type, now) ==
    Created(new(id, title, content, memory_type, now), "new", now)

CreateMemoryEntry(id, title, content, memory_type, emotion_tags, now) ==
    Created(create_memory_entry(id, title, content, memory_type, emotion_tags, now),
            "create_memory_entry", now)

Changed(entry, op, arg, now) ==
    /\ cx.pc = "live"
    /\ cx' = [cx EXCEPT !.entry = entry, !.op = op, !.arg = arg, !.now = now]
    /\ UNCHANGED <<file, last, written, tasks, lastWriter>>

Update(title, content, now) ==
    /\ now >= cx.now
    /\ Changed(update(cx.entry, title, content, now), "update", <<title, content>>, now)

AddEmotionTag(tag) ==
    Changed(add_emotion_tag(cx.entry, tag), "add_emotion_tag", <<tag>>, cx.now)

RemoveEmotionTag(tag) ==
    Changed(remove_emotion_tag(cx.entry, tag), "remove_emotion_tag", <<tag>>, cx.now)

\* update_memory_entry on the entry as get_entry reads it from the file
UpdateMemoryEntry(title, content, emotion_tags, now) ==
    /\ now >= cx.now
    /\ EntryFromJson(EntryToJson(cx.entry)).ok
    /\ Changed(update_memory_entry(EntryFromJson(EntryToJson(cx.entry)).val,
                                   title, content, emotion_tags, now),
               "update_memory_entry", <<title, content, emotion_tags>>, now)

NextEntry ==
    \/ \E id \in Ids, title \in Titles, content \in Contents, now \in Clock :
          New(id, title, content, "Text", now)
    \/ \E id \in Ids, title \in Titles, content \in Contents, now \in Clock :
       \E memory_type \in TypeStrings, emotion_tags \in TagStrings :
          CreateMemoryEntry(id, title, content, memory_type, emotion_tags, now)
    \/ \E title \in {None, Some(<<"b">>)}, content \in {None, Some(<<"a">>)} :
       \E now \in Clock : Update(title, content, now)
    \/ \E tag \in ChangedTags : AddEmotionTag(tag)
    \/ \E tag \in ChangedTags : RemoveEmotionTag(tag)
    \/ \E title \in {None, Some(<<"b">>)}, content \in {None, Some(<<"a">>)} :
       \E emotion_tags \in {None} \cup {Some(l) : l \in TagStrings}, now \in Clock :
          UpdateMemoryEntry(title, content, emotion_tags, now)

SpecEntry == InitEntry /\ [][NextEntry]_vars

\* C22: after MemoryEntry::new and any update calls the entry has the id and
\* the created_at of its creation, updated_at is not before created_at, and
\* every update call, also one without title and content, sets updated_at to
\* the reading of the clock at the call.
C22_IdentityAndTimestamps ==
    (cx.pc = "live") =>
        /\ cx.entry.id = cx.born.id
        /\ cx.entry.created_at = cx.born.created_at
        /\ cx.entry.updated_at >= cx.entry.created_at
        /\ cx.op \in {"update", "update_memory_entry"} => cx.entry.updated_at = cx.now

\* an update without title and content moved updated_at past created_at
C22_Witness ==
    /\ cx.pc = "live" /\ cx.op = "update"
    /\ cx.arg = <<None, None>>
    /\ cx.entry.updated_at = cx.now
    /\ cx.entry.updated_at > cx.entry.created_at

\* the list holds no tag twice
NoDuplicate(tags) ==
    \A i \in 1..Len(tags) : \A k \in (i + 1)..Len(tags) : tags[i] # tags[k]

\* C28: the emotion_tags of an entry made by MemoryEntry::new hold no tag
\* twice after any add_emotion_tag and remove_emotion_tag calls and after the
\* clear and re-add of update_memory_entry; add_emotion_tag of a tag of the
\* list leaves the list as it is; remove_emotion_tag leaves the other tags, in
\* their order, and no occurrence of the tag.
C28_EmotionTagsAreASet ==
    [][/\ NoDuplicate(cx'.entry.emotion_tags)
       /\ (cx'.op = "add_emotion_tag" /\ cx'.arg[1] \in Range(cx.entry.emotion_tags))
             => cx'.entry.emotion_tags = cx.entry.emotion_tags
       /\ (cx'.op = "add_emotion_tag" /\ cx'.arg[1] \notin Range(cx.entry.emotion_tags))
             => cx'.entry.emotion_tags = cx.entry.emotion_tags \o <<cx'.arg[1]>>
       /\ (cx'.op = "remove_emotion_tag") =>
             /\ cx'.arg[1] \notin Range(cx'.entry.emotion_tags)
             /\ Range(cx'.entry.emotion_tags) = Range(cx.entry.emotion_tags) \ {cx'.arg[1]}
             /\ Len(cx'.entry.emotion_tags) = Cardinality(Range(cx'.entry.emotion_tags))
             /\ \A i \in 1..Len(cx'.entry.emotion_tags) :
                \A k \in (i + 1)..Len(cx'.entry.emotion_tags) :
                   \E m \in 1..Len(cx.entry.emotion_tags) :
                   \E n \in (m + 1)..Len(cx.entry.emotion_tags) :
                      /\ cx.entry.emotion_tags[m] = cx'.entry.emotion_tags[i]
                      /\ cx.entry.emotion_tags[n] = cx'.entry.emotion_tags[k]]_vars

\* update_memory_entry was given "hope", "joy", "hope" and left Hope, Joy
C28_Witness ==
    /\ cx.pc = "live" /\ cx.op = "update_memory_entry"
    /\ cx.arg[3] = Some(<<"hope", "joy", "hope">>)
    /\ cx.entry.emotion_tags = <<"Hope", "Joy">>

====
